---------------------------- MODULE Spec2Model ----------------------------
(***************************************************************************)
(* The connection pool of ldap-async (class Ldap) and the operations that  *)
(* draw connections from it: stream(), the write operations that go        *)
(* through useClient(), wait() and close().                                *)
(*                                                                         *)
(* The program is single threaded.  An async function runs without         *)
(* interruption up to its next await; what follows the await is a          *)
(* continuation.  A continuation of an already settled promise (a          *)
(* microtask) runs before any I/O completion or timer callback (a          *)
(* macrotask), so every action that models an I/O completion or a timer    *)
(* is guarded by ~MicrotaskPending.  Calls made by the application         *)
(* (starting an operation, close(), reading or destroying a stream) may    *)
(* come from a microtask of their own and are not guarded.                 *)
(*                                                                         *)
(* Two further parts stand beside the pool: the cleanup timer of a pool    *)
(* configured with an idle timeout (IdleSpec), and load(), that gathers    *)
(* the lookups of one tick into batched searches (BurstSpec, LoadSpec).    *)
(* The load() specifications leave the pool alone and see a search only    *)
(* as a request that is sent and later succeeds or fails.                  *)
(***************************************************************************)
EXTENDS Integers, Sequences, FiniteSets, TLC

\* ------------------------------------------------------------------ bounds
NumOps == 3            \* operations the application issues over the run
NumClosers == 2        \* close() calls the application issues over the run
MaxPoolSize == 2       \* poolSize is drawn from 1..MaxPoolSize
HighWaterMark == 2     \* Readable's buffer limit (push() returns false at it)
MaxPageEntries == 2    \* entries in one page of a paged search
MaxPages == 2          \* pages of one paged search
IdleTimeout == 2       \* the idle timeout, in periods of the cleanup timer
MaxBurst == 201        \* load() calls of one burst (BurstSpec)
MaxLoads == 3          \* load() calls of one run of LoadSpec
NumVals == 2           \* distinct identifiers the calls of LoadSpec ask for
MaxValues == 8         \* values of the ranged attribute in the directory
MaxValRange == 3       \* the most values the server returns of one attribute
NumAttrVals == 3       \* values pushAttribute() and pullAttribute() deal with
NumGroups == 3         \* groups of the directory getMemberStream() walks
NumUsers == 2          \* entries of the directory that are not groups

batchLimit == 100      \* default of batch()'s second parameter

None == 0              \* undefined / no connection

Ops == 1 .. NumOps
Closers == 1 .. NumClosers
\* A connection object is created by connect() only, one per call, so at most
\* NumOps of them are referenced at any one time.
Conns == 1 .. NumOps

\* The kinds of operation slot o may run: one slot may stream, the others
\* write through useClient() or probe with wait().
OpKinds(o) == IF o = 1 THEN {"stream", "write"} ELSE {"write", "wait"}

\* A string is the sequence of its characters; a word that no operation
\* takes apart ("uid", "ou=people", an identifier) stands as one character.
\* What load() is called with: a DN "uid=<val>,<basedn>" and the list of
\* attributes to fetch.
Bases == {<<"ou=people">>}
UidDn(val, basedn) == <<"uid", "=", ToString(val), ",">> \o basedn
AttributeLists == {<<"cn">>, <<"cn", "mail">>}
\* attrKey: JSON.stringify(attributes) + basedn.  The serialisation of a list
\* of strings ends at its closing bracket, so the key determines both parts.
attrKey(attributes, basedn) == <<attributes, basedn>>
Keys == {attrKey(a, b) : a \in AttributeLists, b \in Bases}

\* The entries of the directory getMemberStream() walks: the groups, the
\* first of them the group the stream is asked for, and the other entries.
Groups == 1 .. NumGroups
Users == NumGroups + 1 .. NumGroups + NumUsers
Nodes == Groups \cup Users
Root == 1
\* A directory without memberships, and getMemberStream() before its call.
NoDirectory == [member |-> [n \in Nodes |-> {}], form |-> "plain"]
NoTraversal == [pc |-> "idle", cur |-> 0, lookups |-> <<>>, pending |-> <<>>,
                open |-> 0, groups |-> <<>>, stack |-> <<>>,
                groupsExplored |-> {}, emitted |-> [n \in Nodes |-> 0],
                ended |-> FALSE, destroyed |-> FALSE, expanded |-> {},
                failures |-> 0]

\* No pushAttribute() or pullAttribute() call yet.
NoWrite == [pc |-> "idle", op |-> "none", values |-> {}, atCall |-> {},
            toSend |-> {}, requests |-> 0, result |-> "none", after |-> {}]

\* fullRange() before it is called.
\* marker is the range marker of the entry pages() read last: "none", "open"
\* (range=<low>-<high>) or "star" (range=<low>-*).
NoCall == [pc |-> "idle", ret |-> <<>>, low |-> 0, high |-> 0, pageSize |-> 0,
           lookups |-> 0, short |-> FALSE, marker |-> "none"]

VARIABLES
  poolSize,      \* this.poolSize
  clients,       \* this.clients: sequence of connections in the pool
  busy,          \* client.busy, per connection object
  isConnected,   \* client.isConnected, per connection object
  poolQueue,     \* this.poolQueue: the waiting acquirers, oldest first
  idleTimeoutSeconds, \* this.idleTimeoutSeconds, in timer periods; None: not configured
  intervalTimer, \* this.intervalTimer is set: the cleanup timer runs
  lastUsed,      \* client.lastUsed, per connection object: <<>> if undefined,
                 \* else <<a>>, stamped a timer periods ago (counted up to the
                 \* idle timeout, and only where an idle timeout is configured:
                 \* nothing else reads the stamp)
  closeRequest,  \* this.closeRequest: the close() call awaiting drain, or None
  pc,            \* per operation: where its async function stands
  kind,          \* per operation: "stream", "write", "wait" ("none" before it starts)
  held,          \* per operation: the connection getClient() works on / returned
  buf,           \* per stream: the records in the Readable's buffer, oldest first
  pageRem,       \* per stream: the entries of the current page not yet pushed
  sent,          \* per stream: entries the server has sent; they are numbered 1, 2, ...
  got,           \* per stream: the number of the entry the consumer read last
                 \* (both are history, kept until the stream's 'close' event)
  morePages,     \* per stream: the current page carries a continuation cookie
  pagesGot,      \* per stream: pages received so far
  destroyed,     \* per stream: stream.destroyed
  canceled,      \* per stream: the closure variable set by the 'close' event
  ended,         \* per stream: push(null) was accepted
  errored,       \* per stream: sendError emitted 'error'
  cpc,           \* per close() call: where it stands
  closing,       \* per close() call: the connections it still has to unbind
  acq,           \* per operation: how often getClient() returned it a connection
  rel,           \* per operation: how often it called release()
  before,        \* pairs <<a, b>>: a was enqueued while b was not yet, both still wait
  appTurn,       \* application code ran in this turn of the event loop
  loadPairs,     \* this.loadPairs, per key: the filters gathered, in insertion
                 \* order; <<>> where the map has no entry (a Set in the map
                 \* is never empty: load() adds to it as it creates it)
  loadPromises,  \* this.loadPromises, per key: the promise load() calls attach
                 \* to, or None
  promises,      \* the promises load() created, in order of creation: the key,
                 \* whether the timer is still to fire, the load() calls that
                 \* await it (their number and their DNs), the searches the
                 \* timer sent and how the promise settled
  attrCount,     \* directory: how many values the attribute read by
                 \* fullRange() has; the server keeps them in order, they are
                 \* numbered 1, 2, ...
  valRange,      \* directory: the most values of one attribute the server
                 \* returns in one answer
  stored,        \* directory: the values of the attribute that pushAttribute()
                 \* and pullAttribute() work on
  wr,            \* the pushAttribute() or pullAttribute() call under way or
                 \* last made: where it stands (pc), its operation and values,
                 \* the directory's values when it was made (atCall), the
                 \* values of its modify request (toSend), the modify requests
                 \* it sent (requests) and what it returned (result)
  lastWr,        \* the call made before it: operation, values, result and
                 \* the directory's values when it returned (after)
  directory,     \* the groups getMemberStream() walks: the member attribute
                 \* of every entry (member) and the form of the DN of the
                 \* last entry that is not a group (form)
  gm,            \* the getMemberStream() call: where it stands (pc), the
                 \* group whose members it is fetching (cur), the searches
                 \* still to make for that group (lookups), the entries the
                 \* open sub-stream has yet to deliver (pending), the
                 \* connections its sub-streams hold (open), the groups
                 \* array of the running getMemberRecur() (groups) and of
                 \* the calls that await it (stack), groupsExplored, how
                 \* often each entry was pushed to the output (emitted),
                 \* whether the output got push(null) (ended) or destroy(e)
                 \* (destroyed), the groups whose searches are all finished
                 \* (expanded) and the sub-fetches that failed (failures)
  fr             \* the fullRange() call: where it stands (pc), what it has
                 \* collected (ret), the window it asked for (low, high), the
                 \* page size, the lookups it made (lookups) and whether one of
                 \* them came back without values (short)

configVars == <<poolSize, idleTimeoutSeconds>>
poolVars == <<poolSize, clients, busy, isConnected, poolQueue, closeRequest,
              idleTimeoutSeconds, intervalTimer, lastUsed>>
opVars == <<pc, kind, held>>
streamVars == <<buf, pageRem, sent, got, morePages, pagesGot, destroyed, canceled,
                ended, errored>>
closeVars == <<cpc, closing>>
ghostVars == <<acq, rel, before>>
sessionVars == <<poolVars, opVars, streamVars, closeVars, ghostVars, appTurn>>
loadVars == <<loadPairs, loadPromises, promises>>
rangeVars == <<attrCount, valRange, fr>>
attrVars == <<stored, wr, lastWr>>
memberVars == <<directory, gm>>
vars == <<sessionVars, loadVars, rangeVars, attrVars, memberVars>>

\* ----------------------------------------------------------------- helpers
InPool(c) == \E i \in 1 .. Len(clients) : clients[i] = c

\* this.clients.filter(c => c !== client)
RemoveNone(seq, c) == seq
Remove(seq, c) == SelectSeq(seq, LAMBDA x : x # c)

\* client.isConnected, as getClient() reads it before returning the client
AssumedConnected(c) == TRUE
IsConnected(c) == isConnected[c]

\* this.clients.find(c => !c.busy): the first connection of the pool that is
\* not busy, or None
FindIdle ==
  LET idx == {i \in 1 .. Len(clients) : ~busy[clients[i]]}
  IN IF idx = {} THEN None
     ELSE clients[CHOOSE i \in idx : \A j \in idx : i <= j]

\* this.clients.length < this.poolSize
UnderCapacityOffByOne == Len(clients) <= poolSize
UnderCapacity == Len(clients) < poolSize

\* A connection object nothing refers to any more (garbage): its identity
\* is free for the next new Client().
Referenced(c) ==
  \/ InPool(c)
  \/ \E o \in Ops : held[o] = c
  \/ \E k \in Closers : \E i \in 1 .. Len(closing[k]) : closing[k][i] = c
NewClient == CHOOSE c \in Conns : ~Referenced(c) /\ \A d \in Conns : ~Referenced(d) => c <= d

\* Positions of an operation.
\*   init       not called yet
\*   connecting in connect(): awaiting startTLS/bind of a new connection
\*   rebinding  in getClient(): awaiting bindConnection() of a disconnected one
\*   unbinding  in bindConnection()'s catch: awaiting client.unbind()
\*   queued     its resolver sits in poolQueue
\*   handed     release() resolved it with a connection; continuation pending
\*   gotClient  wait(), stream(): getClient() returned; continuation pending
\*   active     request on the wire (write), or awaiting a page (stream)
\*   paused     stream producer awaiting unpause (backpressure)
\*   resumed    _read() called unpause; continuation pending
\*   faulted    stream: the producer promise rejected; sendError pending
\*   retry      wait(): sleeping 2 seconds before the next attempt
\*   done, failed
Holding == {"gotClient", "active", "paused", "resumed"}
InFlight == {"connecting", "rebinding", "unbinding", "queued", "handed",
             "gotClient", "active", "paused", "resumed", "faulted", "retry"}

\* A continuation or a process.nextTick callback is pending: no I/O
\* completion and no timer runs before it.
MicrotaskPending ==
  \/ \E o \in Ops : pc[o] \in {"handed", "gotClient", "resumed", "faulted"}
  \/ \E o \in Ops : destroyed[o] /\ ~canceled[o]
  \/ \E k \in Closers : cpc[k] = "resumed"

\* The application can call in from a task of its own, when nothing is
\* pending, or from a continuation of code of its own that ran earlier in
\* this turn of the event loop and that runs interleaved with the library's
\* continuations.  An I/O completion or a timer of the library starts a turn
\* in which only library code has run.
AppCall == ~MicrotaskPending \/ appTurn

Init ==
  /\ poolSize \in 1 .. MaxPoolSize
  /\ clients = <<>>
  /\ busy = [c \in Conns |-> FALSE]
  /\ isConnected = [c \in Conns |-> FALSE]
  /\ poolQueue = <<>>
  /\ closeRequest = None
  /\ idleTimeoutSeconds = None
  /\ intervalTimer = FALSE
  /\ lastUsed = [c \in Conns |-> <<>>]
  /\ pc = [o \in Ops |-> "init"]
  /\ kind = [o \in Ops |-> "none"]
  /\ held = [o \in Ops |-> None]
  /\ buf = [o \in Ops |-> <<>>]
  /\ pageRem = [o \in Ops |-> <<>>]
  /\ sent = [o \in Ops |-> 0]
  /\ got = [o \in Ops |-> 0]
  /\ morePages = [o \in Ops |-> FALSE]
  /\ pagesGot = [o \in Ops |-> 0]
  /\ destroyed = [o \in Ops |-> FALSE]
  /\ canceled = [o \in Ops |-> FALSE]
  /\ ended = [o \in Ops |-> FALSE]
  /\ errored = [o \in Ops |-> FALSE]
  /\ cpc = [k \in Closers |-> "init"]
  /\ closing = [k \in Closers |-> <<>>]
  /\ acq = [o \in Ops |-> 0]
  /\ rel = [o \in Ops |-> 0]
  /\ before = {}
  /\ appTurn = TRUE
  /\ loadPairs = [k \in Keys |-> <<>>]
  /\ loadPromises = [k \in Keys |-> None]
  /\ promises = <<>>
  /\ attrCount = 0
  /\ valRange = MaxValRange
  /\ fr = NoCall
  /\ stored = {}
  /\ wr = NoWrite
  /\ lastWr = NoWrite
  /\ directory = NoDirectory
  /\ gm = NoTraversal


\* ------------------------------------------------------------ pool methods
\* Where an operation of kind k stands once getClient() has returned: wait()
\* still has to run its continuation, that releases at once; stream() still
\* has to run the callback of getClient().then(), that builds the search
\* request; useClient() has sent its request.
AfterGet(k) == IF k \in {"wait", "stream"} THEN "gotClient" ELSE "active"

\* The operations whose resolver sits in the queue.
Waiting == {o \in Ops : pc[o] = "queued"}

\* getClient(), from the call to its first await (or to its return).
GetClient(o, k) ==
  LET idle == FindIdle IN
  IF idle # None
  THEN /\ busy' = [busy EXCEPT ![idle] = TRUE]
       /\ held' = [held EXCEPT ![o] = idle]
       /\ IF IsConnected(idle)
          THEN /\ pc' = [pc EXCEPT ![o] = AfterGet(k)]
               /\ acq' = [acq EXCEPT ![o] = @ + 1]
          ELSE /\ pc' = [pc EXCEPT ![o] = "rebinding"]
               /\ acq' = acq
       /\ UNCHANGED <<clients, isConnected, poolQueue, before, intervalTimer,
                      lastUsed>>
  ELSE IF UnderCapacity
  THEN LET c == NewClient IN
       /\ clients' = Append(clients, c)
       /\ busy' = [busy EXCEPT ![c] = TRUE]
       /\ isConnected' = [isConnected EXCEPT ![c] = FALSE]
       /\ held' = [held EXCEPT ![o] = c]
       /\ pc' = [pc EXCEPT ![o] = "connecting"]
       /\ intervalTimer' = (intervalTimer \/ idleTimeoutSeconds # None)
       /\ lastUsed' = [lastUsed EXCEPT ![c] = <<>>]
       /\ UNCHANGED <<poolQueue, acq, before>>
  ELSE /\ poolQueue' = Append(poolQueue, o)
       /\ before' = before \cup {<<w, o>> : w \in Waiting}
       /\ held' = [held EXCEPT ![o] = None]
       /\ pc' = [pc EXCEPT ![o] = "queued"]
       /\ UNCHANGED <<clients, busy, isConnected, acq, intervalTimer, lastUsed>>

\* this.poolQueue.shift(): the resolver taken and the queue left
QueuePop ==
  [next |-> poolQueue[Len(poolQueue)], rest |-> SubSeq(poolQueue, 1, Len(poolQueue) - 1)]
QueueShift == [next |-> Head(poolQueue), rest |-> Tail(poolQueue)]

\* release() that leaves the queue alone.
ReleaseNoHandOff(o, pcBase) ==
  /\ busy' = [busy EXCEPT ![held[o]] = FALSE]
  /\ lastUsed' = lastUsed
  /\ held' = [held EXCEPT ![o] = None]
  /\ pc' = pcBase
  /\ UNCHANGED <<poolQueue, before, cpc>>

\* release(client), called by operation o on the connection it holds; o's
\* own change of position is in pcBase and o drops its reference.  The
\* resolver of a queued acquirer only settles its promise: the acquirer runs
\* later ("handed").  closeRequest() likewise only settles the promise
\* close() awaits.
Release(o, pcBase) ==
  /\ busy' = [busy EXCEPT ![held[o]] = FALSE]
  /\ lastUsed' = IF idleTimeoutSeconds = None THEN lastUsed
                 ELSE [lastUsed EXCEPT ![held[o]] = <<0>>]
  /\ IF poolQueue # <<>>
     THEN LET w == QueueShift.next IN
          /\ poolQueue' = QueueShift.rest
          /\ pc' = [pcBase EXCEPT ![w] = "handed"]
          /\ held' = [held EXCEPT ![o] = None, ![w] = held[o]]
          /\ before' = {p \in before : p[1] # w /\ p[2] # w}
          /\ cpc' = cpc
     ELSE /\ UNCHANGED <<poolQueue, before>>
          /\ held' = [held EXCEPT ![o] = None]
          /\ pc' = pcBase
          /\ cpc' = IF /\ \A i \in 1 .. Len(clients) : ~busy'[clients[i]]
                       /\ closeRequest # None
                       /\ cpc[closeRequest] = "waiting"
                    THEN [cpc EXCEPT ![closeRequest] = "resumed"]
                    ELSE cpc

\* ------------------------------------------------- operations: acquisition
\* The application calls stream(), a write operation or wait().  Slots of
\* the same kinds are interchangeable, so they are used in order.
StartOp(o, k) ==
  /\ AppCall
  /\ appTurn' = TRUE
  /\ pc[o] = "init"
  /\ k \in OpKinds(o)
  /\ o > 2 => pc[o - 1] # "init"
  /\ kind' = [kind EXCEPT ![o] = k]
  /\ GetClient(o, k)
  /\ UNCHANGED <<memberVars, attrVars, rangeVars, loadVars, configVars, closeRequest, streamVars, closeVars, rel>>

\* startTLS and bind succeeded: bindConnection() returns the client.  After
\* connect() getClient() sets busy; after a re-bind it returns at once.
BindOk(o) ==
  /\ pc[o] \in {"connecting", "rebinding"}
  /\ ~MicrotaskPending
  /\ appTurn' = FALSE
  /\ isConnected' = [isConnected EXCEPT ![held[o]] = TRUE]
  /\ busy' = IF pc[o] = "connecting" THEN [busy EXCEPT ![held[o]] = TRUE] ELSE busy
  /\ pc' = [pc EXCEPT ![o] = AfterGet(kind[o])]
  /\ acq' = [acq EXCEPT ![o] = @ + 1]
  /\ UNCHANGED <<memberVars, attrVars, rangeVars, loadVars, configVars, clients, poolQueue, closeRequest, intervalTimer,
                 lastUsed, kind, held, streamVars, closeVars, rel, before>>

\* startTLS or bind failed: the catch block awaits client.unbind().
BindFail(o) ==
  /\ pc[o] \in {"connecting", "rebinding"}
  /\ ~MicrotaskPending
  /\ appTurn' = FALSE
  /\ pc' = [pc EXCEPT ![o] = "unbinding"]
  /\ UNCHANGED <<memberVars, attrVars, rangeVars, loadVars, poolVars, kind, held, streamVars, closeVars, ghostVars>>

\* client.unbind() settled: the client is filtered out of the pool and the
\* error is rethrown, so getClient() rejects.  stream() passes the rejection
\* to sendError, useClient() to its caller, wait() sleeps and tries again.
\* The busy flag and the lastUsed stamp are read on connections of the pool
\* only; on the discarded object they are cleared, as nothing reads them
\* again.
BindFailed(o) ==
  /\ pc[o] = "unbinding"
  /\ ~MicrotaskPending
  /\ appTurn' = FALSE
  /\ clients' = Remove(clients, held[o])
  /\ isConnected' = [isConnected EXCEPT ![held[o]] = FALSE]
  /\ busy' = [busy EXCEPT ![held[o]] = FALSE]
  /\ held' = [held EXCEPT ![o] = None]
  /\ pc' = [pc EXCEPT ![o] = CASE kind[o] = "stream" -> "faulted"
                               [] kind[o] = "wait" -> "retry"
                               [] OTHER -> "failed"]
  /\ lastUsed' = [lastUsed EXCEPT ![held[o]] = <<>>]
  /\ UNCHANGED <<memberVars, attrVars, rangeVars, loadVars, configVars, poolQueue, closeRequest, intervalTimer, kind,
                 streamVars, closeVars, ghostVars>>

\* The continuation of a queued getClient() that release() resolved.
Resume(o) ==
  /\ pc[o] = "handed"
  /\ UNCHANGED appTurn
  /\ busy' = [busy EXCEPT ![held[o]] = TRUE]
  /\ IF IsConnected(held[o])
     THEN /\ pc' = [pc EXCEPT ![o] = AfterGet(kind[o])]
          /\ acq' = [acq EXCEPT ![o] = @ + 1]
     ELSE /\ pc' = [pc EXCEPT ![o] = "rebinding"]
          /\ acq' = acq
  /\ UNCHANGED <<memberVars, attrVars, rangeVars, loadVars, configVars, clients, isConnected, poolQueue, closeRequest,
                 intervalTimer, lastUsed, kind, held, streamVars, closeVars,
                 rel, before>>

\* The server (or the network) drops an idle connection of the pool.
Disconnect(c) ==
  /\ InPool(c)
  /\ ~busy[c]
  /\ isConnected[c]
  /\ ~MicrotaskPending
  /\ appTurn' = FALSE
  /\ isConnected' = [isConnected EXCEPT ![c] = FALSE]
  /\ UNCHANGED <<memberVars, attrVars, rangeVars, loadVars, configVars, clients, busy, poolQueue, closeRequest,
                 intervalTimer, lastUsed, opVars, streamVars, closeVars,
                 ghostVars>>

\* ------------------------------------------------------ useClient / wait()
\* useClient() with a catch block that drops the connection of a rejected
\* request from the pool.
WriteDoneDiscards(o, ok) ==
  /\ pc[o] = "active"
  /\ kind[o] = "write"
  /\ ~MicrotaskPending
  /\ appTurn' = FALSE
  /\ Release(o, [pc EXCEPT ![o] = IF ok THEN "done" ELSE "failed"])
  /\ rel' = [rel EXCEPT ![o] = @ + 1]
  /\ clients' = IF ok THEN clients ELSE Remove(clients, held[o])
  /\ UNCHANGED <<memberVars, attrVars, rangeVars, loadVars, configVars, isConnected, closeRequest, intervalTimer,
                 kind, streamVars, closing, acq>>

\* The request of modify(), add(), remove() or modifyDN() is answered (ok)
\* or rejected by the server: useClient()'s finally releases either way.
WriteDone(o, ok) ==
  /\ pc[o] = "active"
  /\ kind[o] = "write"
  /\ ~MicrotaskPending
  /\ appTurn' = FALSE
  /\ Release(o, [pc EXCEPT ![o] = IF ok THEN "done" ELSE "failed"])
  /\ rel' = [rel EXCEPT ![o] = @ + 1]
  /\ UNCHANGED <<memberVars, attrVars, rangeVars, loadVars, configVars, clients, isConnected, closeRequest, intervalTimer,
                 kind, streamVars, closing, acq>>

\* wait() that ends its loop without releasing the client.
WaitKeepsClient(o) ==
  /\ pc[o] = "gotClient"
  /\ kind[o] = "wait"
  /\ UNCHANGED appTurn
  /\ pc' = [pc EXCEPT ![o] = "done"]
  /\ UNCHANGED <<memberVars, attrVars, rangeVars, loadVars, poolVars, kind, held, streamVars, closeVars, ghostVars>>

\* wait(): getClient() returned, the client is released and the loop ends.
WaitRelease(o) ==
  /\ pc[o] = "gotClient"
  /\ kind[o] = "wait"
  /\ UNCHANGED appTurn
  /\ Release(o, [pc EXCEPT ![o] = "done"])
  /\ rel' = [rel EXCEPT ![o] = @ + 1]
  /\ UNCHANGED <<memberVars, attrVars, rangeVars, loadVars, configVars, clients, isConnected, closeRequest, intervalTimer,
                 kind, streamVars, closing, acq>>

\* wait(): the 2 second timer fired, the loop calls getClient() again.
WaitRetry(o) ==
  /\ pc[o] = "retry"
  /\ ~MicrotaskPending
  /\ appTurn' = FALSE
  /\ GetClient(o, "wait")
  /\ UNCHANGED <<memberVars, attrVars, rangeVars, loadVars, configVars, closeRequest, kind, streamVars, closeVars, rel>>


\* ---------------------------------------------------------------- stream()
\* The for loop over result.searchEntries, run until it ends, breaks or
\* awaits: b the records buffered, r the entries left, d stream.destroyed,
\* cn canceled.  push() on a destroyed stream drops the record and returns
\* false; otherwise it appends it to the buffer and returns whether the
\* buffer is still below the high water mark.
RECURSIVE PushLoopUnshift(_, _, _, _)
PushLoopUnshift(b, r, d, cn) ==
  IF r = <<>> \/ cn
  THEN [buf |-> b, rem |-> r, paused |-> FALSE]
  ELSE LET b2 == IF d THEN b ELSE <<Head(r)>> \o b
           keepGoing == ~d /\ Len(b2) < HighWaterMark
       IN IF keepGoing
          THEN PushLoopUnshift(b2, Tail(r), d, cn)
          ELSE [buf |-> b2, rem |-> Tail(r), paused |-> TRUE]
RECURSIVE PushLoop(_, _, _, _)
PushLoop(b, r, d, cn) ==
  IF r = <<>> \/ cn
  THEN [buf |-> b, rem |-> r, paused |-> FALSE]
  ELSE LET b2 == IF d THEN b ELSE Append(b, Head(r))
           keepGoing == ~d /\ Len(b2) < HighWaterMark
       IN IF keepGoing
          THEN PushLoop(b2, Tail(r), d, cn)
          ELSE [buf |-> b2, rem |-> Tail(r), paused |-> TRUE]

\* The producer of stream o runs with the entries n of the current page left
\* to push; more says whether the server announced a further page.  It stops
\* at the await on unpause, at the request for the next page, or after
\* stream.push(null) and the release() of the finally block.
Produce(o, n, more) ==
  LET r == PushLoop(buf[o], n, destroyed[o], canceled[o]) IN
  /\ buf' = [buf EXCEPT ![o] = r.buf]
  /\ morePages' = [morePages EXCEPT ![o] = more]
  /\ IF r.paused
     THEN /\ pageRem' = [pageRem EXCEPT ![o] = r.rem]
          /\ pc' = [pc EXCEPT ![o] = "paused"]
          /\ UNCHANGED <<busy, lastUsed, poolQueue, held, before, cpc, ended,
                         rel>>
     ELSE IF more /\ ~canceled[o]
     THEN /\ pageRem' = [pageRem EXCEPT ![o] = <<>>]
          /\ pc' = [pc EXCEPT ![o] = "active"]
          /\ UNCHANGED <<busy, lastUsed, poolQueue, held, before, cpc, ended,
                         rel>>
     ELSE /\ pageRem' = [pageRem EXCEPT ![o] = <<>>]
          /\ ended' = [ended EXCEPT ![o] = ~destroyed[o]]
          /\ Release(o, [pc EXCEPT ![o] = "done"])
          /\ rel' = [rel EXCEPT ![o] = @ + 1]

\* The callback of getClient().then() runs: searchPaginated() builds the
\* search request and sends it; the producer awaits the first page.
SearchSent(o) ==
  /\ pc[o] = "gotClient"
  /\ kind[o] = "stream"
  /\ UNCHANGED appTurn
  /\ pc' = [pc EXCEPT ![o] = "active"]
  /\ UNCHANGED <<memberVars, attrVars, rangeVars, loadVars, poolVars, kind, held, streamVars, closeVars, ghostVars>>

\* The callback of getClient().then() runs and the search request cannot be
\* built (a filter that does not parse): searchPaginated throws before
\* anything is sent, the finally block releases, the rejection is on its
\* way to sendError.
SearchThrows(o) ==
  /\ pc[o] = "gotClient"
  /\ kind[o] = "stream"
  /\ UNCHANGED appTurn
  /\ Release(o, [pc EXCEPT ![o] = "faulted"])
  /\ rel' = [rel EXCEPT ![o] = @ + 1]
  /\ UNCHANGED <<memberVars, attrVars, rangeVars, loadVars, configVars, clients, isConnected, closeRequest, intervalTimer,
                 kind, streamVars, closing, acq>>

\* The producer is inside `for await (const result of searchIterator)`,
\* awaiting the next page of the search.
AwaitsPageOrUnpause(o) == pc[o] \in {"active", "paused"} /\ kind[o] = "stream"
AwaitsPage(o) == pc[o] = "active" /\ kind[o] = "stream"

\* A page of the paged search arrives, with n entries.
PageArrives(o, n, more) ==
  /\ AwaitsPage(o)
  /\ ~MicrotaskPending
  /\ appTurn' = FALSE
  /\ pagesGot[o] < MaxPages
  /\ more => pagesGot[o] + 1 < MaxPages
  /\ pagesGot' = [pagesGot EXCEPT ![o] = @ + 1]
  /\ sent' = [sent EXCEPT ![o] = IF canceled[o] THEN @ ELSE @ + n]
  /\ Produce(o, [i \in 1 .. n |-> sent[o] + i], more)
  /\ UNCHANGED <<memberVars, attrVars, rangeVars, loadVars, configVars, clients, isConnected, closeRequest, intervalTimer,
                 kind, got, destroyed, canceled, errored, closing, acq>>

\* The continuation of the await on unpause.
ProducerResume(o) ==
  /\ pc[o] = "resumed"
  /\ UNCHANGED appTurn
  /\ Produce(o, pageRem[o], morePages[o])
  /\ UNCHANGED <<memberVars, attrVars, rangeVars, loadVars, configVars, clients, isConnected, closeRequest, intervalTimer,
                 kind, sent, got, pagesGot, destroyed, canceled, errored,
                 closing, acq>>

\* The search fails on the wire: searchPaginated throws inside the try, the
\* finally block releases, the rejection is on its way to sendError.
WireErrorNoRelease(o) ==
  /\ pc[o] = "active"
  /\ kind[o] = "stream"
  /\ ~MicrotaskPending
  /\ appTurn' = FALSE
  /\ pc' = [pc EXCEPT ![o] = "faulted"]
  /\ UNCHANGED <<memberVars, attrVars, rangeVars, loadVars, poolVars, kind, held, streamVars, closeVars, ghostVars>>
WireError(o) ==
  /\ pc[o] = "active"
  /\ kind[o] = "stream"
  /\ ~MicrotaskPending
  /\ appTurn' = FALSE
  /\ Release(o, [pc EXCEPT ![o] = "faulted"])
  /\ rel' = [rel EXCEPT ![o] = @ + 1]
  /\ UNCHANGED <<memberVars, attrVars, rangeVars, loadVars, configVars, clients, isConnected, closeRequest, intervalTimer,
                 kind, streamVars, closing, acq>>

\* sendError: emits 'error' unless the stream was canceled.
SendError(o) ==
  /\ pc[o] = "faulted"
  /\ UNCHANGED appTurn
  /\ errored' = [errored EXCEPT ![o] = ~canceled[o]]
  /\ pc' = [pc EXCEPT ![o] = "failed"]
  /\ UNCHANGED <<memberVars, attrVars, rangeVars, loadVars, poolVars, kind, held, buf, pageRem, sent, got, morePages,
                 pagesGot, destroyed, canceled, ended, closeVars, ghostVars>>

\* The consumer takes a record (stream.read(), as for await does).  Readable
\* calls _read() when the buffer falls below the high water mark and no end
\* was pushed; _read() calls the unpause of the producer's latest await.
\* Reading the last record of an ended stream emits 'end', and autoDestroy
\* destroys the stream.
Read(o) ==
  /\ AppCall
  /\ appTurn' = TRUE
  /\ kind[o] = "stream"
  /\ ~destroyed[o]
  /\ buf[o] # <<>>
  /\ buf' = [buf EXCEPT ![o] = Tail(@)]
  /\ got' = [got EXCEPT ![o] = Head(buf[o])]
  /\ pc' = IF pc[o] = "paused" /\ Len(buf[o]) - 1 < HighWaterMark /\ ~ended[o]
           THEN [pc EXCEPT ![o] = "resumed"]
           ELSE pc
  /\ destroyed' = [destroyed EXCEPT ![o] = ended[o] /\ Len(buf[o]) = 1]
  /\ UNCHANGED <<memberVars, attrVars, rangeVars, loadVars, poolVars, kind, held, pageRem, sent, morePages, pagesGot,
                 canceled, ended, errored, closeVars, ghostVars>>

\* The consumer finds an ended stream empty: 'end', then autoDestroy.
EndOfStream(o) ==
  /\ AppCall
  /\ appTurn' = TRUE
  /\ kind[o] = "stream"
  /\ ~destroyed[o]
  /\ ended[o]
  /\ buf[o] = <<>>
  /\ destroyed' = [destroyed EXCEPT ![o] = TRUE]
  /\ UNCHANGED <<memberVars, attrVars, rangeVars, loadVars, poolVars, opVars, buf, pageRem, sent, got, morePages, pagesGot,
                 canceled, ended, errored, closeVars, ghostVars>>

\* The consumer destroys the stream: stream.destroy(), or a break or a throw
\* inside for await.  The buffered records are dropped.
Destroy(o) ==
  /\ AppCall
  /\ appTurn' = TRUE
  /\ kind[o] = "stream"
  /\ ~destroyed[o]
  /\ destroyed' = [destroyed EXCEPT ![o] = TRUE]
  /\ buf' = [buf EXCEPT ![o] = <<>>]
  /\ UNCHANGED <<memberVars, attrVars, rangeVars, loadVars, poolVars, opVars, pageRem, sent, got, morePages, pagesGot,
                 canceled, ended, errored, closeVars, ghostVars>>

\* The 'close' event of a destroyed stream, emitted on the next tick.
CloseEvent(o) ==
  /\ destroyed[o]
  /\ UNCHANGED appTurn
  /\ ~canceled[o]
  /\ canceled' = [canceled EXCEPT ![o] = TRUE]
  /\ sent' = [sent EXCEPT ![o] = 0]
  /\ got' = [got EXCEPT ![o] = 0]
  /\ UNCHANGED <<memberVars, attrVars, rangeVars, loadVars, poolVars, opVars, buf, pageRem, morePages, pagesGot,
                 destroyed, ended, errored, closeVars, ghostVars>>

\* ------------------------------------------------------------ idle timeout
\* idleSeconds >= this.idleTimeoutSeconds, for a client whose lastUsed is set
IdleExpiredAlways(c) == TRUE
IdleExpiredNever(c) == FALSE
IdleExpired(c) == lastUsed[c][1] >= idleTimeoutSeconds

\* The filter of idleCleanup(): the clients that stay in the pool.
KeptByCleanup(c) == busy[c] \/ lastUsed[c] = <<>> \/ ~IdleExpired(c)

\* One period of the cleanup timer goes by: the idle connections of the pool
\* have been idle for one period more.
Tick ==
  /\ idleTimeoutSeconds # None
  /\ ~MicrotaskPending
  /\ \E i \in 1 .. Len(clients) :
       /\ ~busy[clients[i]]
       /\ lastUsed[clients[i]] # <<>>
       /\ lastUsed[clients[i]][1] < idleTimeoutSeconds
  /\ lastUsed' = [c \in Conns |->
                    IF InPool(c) /\ ~busy[c] /\ lastUsed[c] # <<>>
                       /\ lastUsed[c][1] < idleTimeoutSeconds
                    THEN <<lastUsed[c][1] + 1>>
                    ELSE lastUsed[c]]
  /\ UNCHANGED <<memberVars, attrVars, rangeVars, loadVars, configVars, clients, busy, isConnected, poolQueue, closeRequest,
                 intervalTimer, opVars, streamVars, closeVars, ghostVars,
                 appTurn>>

\* The cleanup timer fires: idleCleanup().  The clients filtered out are
\* unbound (the unbind is not awaited) and dropped; the timer is cleared if
\* the pool is left empty.
IdleCleanup ==
  /\ intervalTimer
  /\ ~MicrotaskPending
  /\ appTurn' = FALSE
  /\ clients' = SelectSeq(clients, KeptByCleanup)
  /\ isConnected' = [c \in Conns |->
                       IF InPool(c) /\ ~KeptByCleanup(c) THEN FALSE
                       ELSE isConnected[c]]
  /\ lastUsed' = [c \in Conns |->
                    IF InPool(c) /\ ~KeptByCleanup(c) THEN <<>> ELSE lastUsed[c]]
  /\ intervalTimer' = (clients' # <<>>)
  /\ UNCHANGED <<memberVars, attrVars, rangeVars, loadVars, configVars, busy, poolQueue, closeRequest, opVars, streamVars,
                 closeVars, ghostVars>>

\* ------------------------------------------------------------------ close()
\* close() from `const clients = this.clients` on: the pool is emptied, the
\* cleanup timer is cleared and the first unbind() is awaited.
Drain(k) ==
  /\ closing' = [closing EXCEPT ![k] = clients]
  /\ clients' = <<>>
  /\ intervalTimer' = FALSE
  /\ cpc' = [cpc EXCEPT ![k] = IF clients = <<>> THEN "done" ELSE "unbinding"]

\* The application calls close().  The calls are numbered in the order in
\* which they are made.
CloseCall(k) ==
  /\ AppCall
  /\ appTurn' = TRUE
  /\ cpc[k] = "init"
  /\ k > 1 => cpc[k - 1] # "init"
  /\ IF closeRequest # None
     THEN /\ cpc' = [cpc EXCEPT ![k] = "done"]
          /\ UNCHANGED <<clients, closeRequest, closing, intervalTimer>>
     ELSE IF \E i \in 1 .. Len(clients) : busy[clients[i]]
     THEN /\ closeRequest' = k
          /\ cpc' = [cpc EXCEPT ![k] = "waiting"]
          /\ UNCHANGED <<clients, closing, intervalTimer>>
     ELSE /\ Drain(k)
          /\ UNCHANGED closeRequest
  /\ UNCHANGED <<memberVars, attrVars, rangeVars, loadVars, configVars, busy, isConnected, poolQueue, lastUsed, opVars,
                 streamVars, ghostVars>>

\* The continuation of close() after closeRequest() was called.
CloseResume(k) ==
  /\ cpc[k] = "resumed"
  /\ UNCHANGED appTurn
  /\ closeRequest' = None
  /\ Drain(k)
  /\ UNCHANGED <<memberVars, attrVars, rangeVars, loadVars, configVars, busy, isConnected, poolQueue, lastUsed, opVars,
                 streamVars, ghostVars>>

\* An unbind() awaited by close() settled; the next one is called.
CloseUnbound(k) ==
  /\ cpc[k] = "unbinding"
  /\ ~MicrotaskPending
  /\ appTurn' = FALSE
  /\ isConnected' = [isConnected EXCEPT ![Head(closing[k])] = FALSE]
  /\ closing' = [closing EXCEPT ![k] = Tail(@)]
  /\ cpc' = [cpc EXCEPT ![k] = IF Len(closing[k]) = 1 THEN "done" ELSE "unbinding"]
  /\ UNCHANGED <<memberVars, attrVars, rangeVars, loadVars, configVars, clients, busy, poolQueue, closeRequest,
                 intervalTimer, lastUsed, opVars, streamVars, ghostVars>>

\* ------------------------------------------------------------ specification
\* What the library and the directory server do for operation o once the
\* application has called it.
Progress(o) ==
  \/ BindOk(o)
  \/ BindFail(o)
  \/ BindFailed(o)
  \/ Resume(o)
  \/ \E ok \in BOOLEAN : WriteDone(o, ok)
  \/ WaitRelease(o)
  \/ WaitRetry(o)
  \/ SearchSent(o)
  \/ SearchThrows(o)
  \/ \E n \in 0 .. MaxPageEntries, more \in BOOLEAN : PageArrives(o, n, more)
  \/ ProducerResume(o)
  \/ WireError(o)
  \/ SendError(o)
  \/ CloseEvent(o)

\* What the library does for close() call k once it is made.
CloseProgress(k) ==
  \/ CloseResume(k)
  \/ CloseUnbound(k)

\* What the application and the environment may do.
Application ==
  \/ \E o \in Ops, k \in {"stream", "write", "wait"} : StartOp(o, k)
  \/ \E o \in Ops : Read(o)
  \/ \E o \in Ops : EndOfStream(o)
  \/ \E o \in Ops : Destroy(o)
  \/ \E k \in Closers : CloseCall(k)
  \/ \E c \in Conns : Disconnect(c)

Next ==
  \/ Application
  \/ \E o \in Ops : Progress(o)
  \/ \E k \in Closers : CloseProgress(k)

Spec == Init /\ [][Next]_vars

\* Every continuation runs, every timer fires and the server answers every
\* request (with success or with failure).  Nothing obliges the application
\* to start an operation, to read a stream or to call close().
FairSpec ==
  /\ Spec
  /\ \A o \in Ops : WF_vars(Progress(o))
  /\ \A k \in Closers : WF_vars(CloseProgress(k))

\* A pool configured with an idle timeout, used by write operations and
\* wait() and closed by close(): the operations, the passing of time and the
\* cleanup timer.
IdleInit ==
  /\ poolSize \in 1 .. MaxPoolSize
  /\ clients = <<>>
  /\ busy = [c \in Conns |-> FALSE]
  /\ isConnected = [c \in Conns |-> FALSE]
  /\ poolQueue = <<>>
  /\ closeRequest = None
  /\ idleTimeoutSeconds = IdleTimeout
  /\ intervalTimer = FALSE
  /\ lastUsed = [c \in Conns |-> <<>>]
  /\ pc = [o \in Ops |-> "init"]
  /\ kind = [o \in Ops |-> "none"]
  /\ held = [o \in Ops |-> None]
  /\ buf = [o \in Ops |-> <<>>]
  /\ pageRem = [o \in Ops |-> <<>>]
  /\ sent = [o \in Ops |-> 0]
  /\ got = [o \in Ops |-> 0]
  /\ morePages = [o \in Ops |-> FALSE]
  /\ pagesGot = [o \in Ops |-> 0]
  /\ destroyed = [o \in Ops |-> FALSE]
  /\ canceled = [o \in Ops |-> FALSE]
  /\ ended = [o \in Ops |-> FALSE]
  /\ errored = [o \in Ops |-> FALSE]
  /\ cpc = [k \in Closers |-> "init"]
  /\ closing = [k \in Closers |-> <<>>]
  /\ acq = [o \in Ops |-> 0]
  /\ rel = [o \in Ops |-> 0]
  /\ before = {}
  /\ appTurn = TRUE
  /\ loadPairs = [k \in Keys |-> <<>>]
  /\ loadPromises = [k \in Keys |-> None]
  /\ promises = <<>>
  /\ attrCount = 0
  /\ valRange = MaxValRange
  /\ fr = NoCall
  /\ stored = {}
  /\ wr = NoWrite
  /\ lastWr = NoWrite
  /\ directory = NoDirectory
  /\ gm = NoTraversal

WriteProgress(o) ==
  \/ BindOk(o)
  \/ BindFail(o)
  \/ BindFailed(o)
  \/ Resume(o)
  \/ \E ok \in BOOLEAN : WriteDone(o, ok)
  \/ WaitRelease(o)
  \/ WaitRetry(o)

IdleNext ==
  \/ \E o \in Ops, k \in {"write", "wait"} : StartOp(o, k)
  \/ \E o \in Ops : WriteProgress(o)
  \/ \E k \in Closers : CloseCall(k)
  \/ \E k \in Closers : CloseProgress(k)
  \/ \E c \in Conns : Disconnect(c)
  \/ Tick
  \/ IdleCleanup

IdleSpec == IdleInit /\ [][IdleNext]_vars

\* Every request is answered, time goes on and the cleanup timer fires as
\* long as it is set.
IdleFairSpec ==
  /\ IdleSpec
  /\ \A o \in Ops : WF_vars(WriteProgress(o))
  /\ \A k \in Closers : WF_vars(CloseProgress(k))
  /\ WF_vars(Tick)
  /\ WF_vars(IdleCleanup)

\* ------------------------------------------------------------------ load()
Min(a, b) == IF a <= b THEN a ELSE b
Range(seq) == {seq[i] : i \in 1 .. Len(seq)}

\* dn.split(/(?<!\\),/): the pieces between the commas that no backslash
\* precedes; cur is the piece being read.
RECURSIVE SplitComma(_, _)
SplitComma(s, cur) ==
  IF s = <<>> THEN <<cur>>
  ELSE IF Head(s) = "," /\ (IF cur = <<>> THEN TRUE ELSE cur[Len(cur)] # "\\")
       THEN <<cur>> \o SplitComma(Tail(s), <<>>)
       ELSE SplitComma(Tail(s), Append(cur, Head(s)))

\* restComponents.join(',')
RECURSIVE JoinComma(_)
JoinComma(components) ==
  IF components = <<>> THEN <<>>
  ELSE IF Len(components) = 1 THEN components[1]
       ELSE components[1] \o <<",">> \o JoinComma(Tail(components))

MinOf(S) == CHOOSE x \in S : \A y \in S : x <= y
RemoveAt(s, i) == SubSeq(s, 1, i - 1) \o SubSeq(s, i + 1, Len(s))

\* .replace(/(?<!\\)\\/, ''): a pattern without the g flag replaces its first
\* match only, here the first backslash that no backslash precedes.
RemoveFirstBackslash(s) ==
  LET at == {i \in 1 .. Len(s) :
               s[i] = "\\" /\ (IF i = 1 THEN TRUE ELSE s[i - 1] # "\\")}
  IN IF at = {} THEN s ELSE RemoveAt(s, MinOf(at))

\* .replace(/\\\\/, '\\'): the first pair of backslashes becomes one.
HalveFirstPair(s) ==
  LET at == {i \in 1 .. Len(s) - 1 : s[i] = "\\" /\ s[i + 1] = "\\"}
  IN IF at = {} THEN s ELSE RemoveAt(s, MinOf(at))

\* searchForDN: the first component of the DN gives attr (up to its first
\* "=") and val (the rest, unescaped by the two replacements); the other
\* components are the base DN.
searchForDN(dn) ==
  LET components == SplitComma(dn, <<>>)
      first == components[1]
      eq == {i \in 1 .. Len(first) : first[i] = "="}
      attr == IF eq = {} THEN first ELSE SubSeq(first, 1, MinOf(eq) - 1)
      restVal == IF eq = {} THEN <<>>
                 ELSE SubSeq(first, MinOf(eq) + 1, Len(first))
  IN [basedn |-> JoinComma(Tail(components)),
      attr |-> attr,
      val |-> HalveFirstPair(RemoveFirstBackslash(restVal))]

\* this.filter`(${attr}=${val})`
filter(attr, val) == <<attr, "=", val>>

\* The slices input.slice(i, i + limit) for i = 0, limit, 2 * limit, ...
\* (position 1 of a sequence is index 0 of the array).
RECURSIVE Slices(_, _, _)
Slices(input, from, limit) ==
  IF from > Len(input) THEN <<>>
  ELSE <<SubSeq(input, from, Min(from + limit - 1, Len(input)))>>
         \o Slices(input, from + limit, limit)

\* batch() with slices of one element too many.
batchOneMore(input, limit) == Slices(input, 1, limit + 1)

batch(input, limit) ==
  IF Len(input) = 0 THEN <<<<>>>> ELSE Slices(input, 1, limit)

\* load(dn, attributes) up to its await: the filter joins the set of its key
\* and the call attaches to the promise of the key, creating the promise and
\* its timer if there is none.
LoadCall(dn, attributes) ==
  LET s == searchForDN(dn)
      k == attrKey(attributes, s.basedn)
      f == filter(s.attr, s.val)
      fresh == loadPromises[k] = None
      p == IF fresh THEN Len(promises) + 1 ELSE loadPromises[k]
  IN /\ loadPairs' = [loadPairs EXCEPT ![k] = IF f \in Range(@) THEN @ ELSE Append(@, f)]
     /\ loadPromises' = [loadPromises EXCEPT ![k] = p]
     /\ promises' =
          IF fresh
          THEN Append(promises, [key |-> k, timer |-> TRUE, calls |-> 1,
                                 waiters |-> {dn}, searches |-> <<>>,
                                 state |-> "pending"])
          ELSE [promises EXCEPT ![p].calls = @ + 1, ![p].waiters = @ \cup {dn}]
     /\ UNCHANGED <<sessionVars, memberVars, attrVars, rangeVars>>

\* The timer callback without its first statement: the promise stays in
\* this.loadPromises.
LoadTimerKeepsPromise(p) ==
  /\ p \in 1 .. Len(promises)
  /\ promises[p].timer
  /\ LET k == promises[p].key
         batches == batch(loadPairs[k], batchLimit)
     IN /\ loadPairs' = [loadPairs EXCEPT ![k] = <<>>]
        /\ promises' = [promises EXCEPT
             ![p].timer = FALSE,
             ![p].searches = [i \in 1 .. Len(batches) |->
                                [base |-> k[2], attributes |-> k[1],
                                 filters |-> batches[i], state |-> "sent"]]]
  /\ UNCHANGED <<sessionVars, memberVars, attrVars, rangeVars, loadPromises>>

\* The timer callback without `this.loadPairs.delete(attrKey)`: the set of
\* the key stays, and its filters are sent again by the next timer.
LoadTimerKeepsPairs(p) ==
  /\ p \in 1 .. Len(promises)
  /\ promises[p].timer
  /\ LET k == promises[p].key
         batches == batch(loadPairs[k], batchLimit)
     IN /\ loadPromises' = [loadPromises EXCEPT ![k] = None]
        /\ promises' = [promises EXCEPT
             ![p].timer = FALSE,
             ![p].searches = [i \in 1 .. Len(batches) |->
                                [base |-> k[2], attributes |-> k[1],
                                 filters |-> batches[i], state |-> "sent"]]]
  /\ UNCHANGED <<sessionVars, memberVars, attrVars, rangeVars, loadPairs>>

\* The timer callback of a promise: it clears the promise and the set of the
\* key and sends one search for each batch of the filters gathered.
LoadTimer(p) ==
  /\ p \in 1 .. Len(promises)
  /\ promises[p].timer
  /\ LET k == promises[p].key
         batches == batch(loadPairs[k], batchLimit)
     IN /\ loadPromises' = [loadPromises EXCEPT ![k] = None]
        /\ loadPairs' = [loadPairs EXCEPT ![k] = <<>>]
        /\ promises' = [promises EXCEPT
             ![p].timer = FALSE,
             ![p].searches = [i \in 1 .. Len(batches) |->
                                [base |-> k[2], attributes |-> k[1],
                                 filters |-> batches[i], state |-> "sent"]]]
  /\ UNCHANGED <<sessionVars, memberVars, attrVars, rangeVars>>

\* A search of the promise comes back, with its entries or with an error.
SearchSettles(p, i, ok) ==
  /\ p \in 1 .. Len(promises)
  /\ i \in 1 .. Len(promises[p].searches)
  /\ promises[p].searches[i].state = "sent"
  /\ promises' = [promises EXCEPT
       ![p].searches[i].state = IF ok THEN "ok" ELSE "failed"]
  /\ UNCHANGED <<sessionVars, memberVars, attrVars, rangeVars, loadPairs, loadPromises>>

\* Promise.all(promises).then(resolve).catch(reject): the promise resolves
\* when every search has succeeded and rejects when one has failed; the
\* load() calls that await it go on with it.
PromiseSettles(p) ==
  /\ p \in 1 .. Len(promises)
  /\ promises[p].state = "pending"
  /\ ~promises[p].timer
  /\ LET ss == promises[p].searches
     IN \/ /\ \A i \in 1 .. Len(ss) : ss[i].state = "ok"
           /\ promises' = [promises EXCEPT ![p].state = "resolved"]
        \/ /\ \E i \in 1 .. Len(ss) : ss[i].state = "failed"
           /\ promises' = [promises EXCEPT ![p].state = "rejected"]
  /\ UNCHANGED <<sessionVars, memberVars, attrVars, rangeVars, loadPairs, loadPromises>>

LoadProgress(p) ==
  \/ LoadTimer(p)
  \/ \E i \in 1 .. (MaxBurst + batchLimit) \div batchLimit, ok \in BOOLEAN :
       SearchSettles(p, i, ok)
  \/ PromiseSettles(p)

\* The calls of one tick for one key: each asks for an identifier not asked
\* for yet or for one asked for before; then the timer and the searches.
BurstKey == attrKey(<<"cn">>, <<"ou=people">>)
BurstNext ==
  \/ /\ IF promises = <<>> THEN TRUE
        ELSE promises[1].timer /\ promises[1].calls < MaxBurst
     /\ \E val \in {1, Len(loadPairs[BurstKey]) + 1} :
          LoadCall(UidDn(val, <<"ou=people">>), <<"cn">>)
  \/ LoadProgress(1)

BurstSpec == Init /\ [][BurstNext]_vars

\* load() calls for a few identifiers under several keys, at any time
\* between the timers and the answers to the searches.
Vals == 1 .. NumVals
Calls == IF promises = <<>> THEN 0
         ELSE LET RECURSIVE Sum(_)
                  Sum(n) == IF n = 0 THEN 0 ELSE promises[n].calls + Sum(n - 1)
              IN Sum(Len(promises))
LoadNext ==
  \/ /\ Calls < MaxLoads
     /\ \E val \in Vals, b \in Bases, a \in AttributeLists : LoadCall(UidDn(val, b), a)
  \/ \E p \in 1 .. MaxLoads : LoadProgress(p)

LoadSpec == Init /\ [][LoadNext]_vars

\* Every timer fires, every search is answered and every continuation runs.
LoadFairSpec == LoadSpec /\ \A p \in 1 .. MaxLoads : WF_vars(LoadProgress(p))

\* ------------------------------------------------------------- fullRange()
\* The state every specification starts the pool, the operations and load()
\* in.
SessionIdle ==
  /\ poolSize = MaxPoolSize
  /\ clients = <<>>
  /\ busy = [c \in Conns |-> FALSE]
  /\ isConnected = [c \in Conns |-> FALSE]
  /\ poolQueue = <<>>
  /\ closeRequest = None
  /\ idleTimeoutSeconds = None
  /\ intervalTimer = FALSE
  /\ lastUsed = [c \in Conns |-> <<>>]
  /\ pc = [o \in Ops |-> "init"]
  /\ kind = [o \in Ops |-> "none"]
  /\ held = [o \in Ops |-> None]
  /\ buf = [o \in Ops |-> <<>>]
  /\ pageRem = [o \in Ops |-> <<>>]
  /\ sent = [o \in Ops |-> 0]
  /\ got = [o \in Ops |-> 0]
  /\ morePages = [o \in Ops |-> FALSE]
  /\ pagesGot = [o \in Ops |-> 0]
  /\ destroyed = [o \in Ops |-> FALSE]
  /\ canceled = [o \in Ops |-> FALSE]
  /\ ended = [o \in Ops |-> FALSE]
  /\ errored = [o \in Ops |-> FALSE]
  /\ cpc = [k \in Closers |-> "init"]
  /\ closing = [k \in Closers |-> <<>>]
  /\ acq = [o \in Ops |-> 0]
  /\ rel = [o \in Ops |-> 0]
  /\ before = {}
  /\ appTurn = TRUE
LoadIdle ==
  /\ loadPairs = [k \in Keys |-> <<>>]
  /\ loadPromises = [k \in Keys |-> None]
  /\ promises = <<>>

\* An entry as LdapEntry sees it, for the one attribute read: its values
\* (all(attr)) and the options that follow the attribute's name
\* (options(attr)).  The only option the server adds is the range marker
\* "range=<low>-<high>", or "range=<low>-*" (star) when the values reach
\* the end.  found is false where the lookup gave no entry.
NoEntry == [found |-> FALSE, values |-> <<>>, options |-> {}]

\* What the server answers when asked for the attribute: with asked = <<>>
\* the attribute was asked for by its name, with asked = <<low, high>> as
\* "<attr>;range=<low>-<high>".  It returns the values from index low on, at
\* most valRange of them and none beyond high, and marks the window unless
\* the attribute was asked for by its name and fits one answer.
ServerAnswer(asked) ==
  LET low == IF asked = <<>> THEN 0 ELSE asked[1]
      upto == IF asked = <<>> THEN attrCount ELSE Min(asked[2] + 1, attrCount)
      end == Min(upto, low + valRange)
      vals == [i \in 1 .. (end - low) |-> low + i]
  IN IF asked = <<>> /\ end = attrCount
     THEN [found |-> TRUE, values |-> vals, options |-> {}]
     ELSE [found |-> TRUE, values |-> vals,
           options |-> {[low |-> low, high |-> end - 1, star |-> end = attrCount]}]

\* An answer without values whose marker claims that more are to come.
EmptyWindow(low, high) ==
  [found |-> TRUE, values |-> <<>>,
   options |-> {[low |-> low, high |-> high, star |-> FALSE]}]

\* new LdapEntry(data): an attribute that came without values is skipped,
\* its options with it.
LdapEntry(data) ==
  IF data.values = <<>>
  THEN [found |-> data.found, values |-> <<>>, options |-> {}]
  ELSE data

\* hasMore of range(): entry?.options(attr).some(o => o.startsWith('range=')
\* && !o.endsWith('*') && values.length > 0) ?? false
hasMore(entry) ==
  IF entry.found
  THEN \E o \in entry.options : ~o.star /\ Len(entry.values) > 0
  ELSE FALSE

\* The range marker an entry's attribute carries, as options() shows it.
MarkerOf(entry) ==
  IF entry.options = {} THEN "none"
  ELSE IF \E o \in entry.options : o.star THEN "star" ELSE "open"

\* The ways the entry fullRange() is called on was asked for: by the
\* attribute's name, or with a range of its own from the first value on
\* ("<attr>;range=0-<high>", a high of MaxValues or more standing for "*").
InitialAsks == {<<>>} \cup {<<0, h>> : h \in 0 .. MaxValues}

\* fullRange(attr) on the entry built from the answer data, up to the first
\* await: pages() yields the values the entry came with and returns unless
\* the attribute carries an option that starts with "range=" or ends with
\* "*"; else it asks for the next window, as long as the first.
FullRangeCall(data) ==
  /\ fr.pc = "idle"
  /\ LET this == LdapEntry(data)
         firstPage == this.values
         pageSize == Len(firstPage)
         low == Len(firstPage)
     IN fr' = IF this.options = {}
              THEN [fr EXCEPT !.pc = "done", !.ret = firstPage,
                              !.marker = MarkerOf(this)]
              ELSE [fr EXCEPT !.pc = "loading", !.ret = firstPage,
                              !.pageSize = pageSize, !.low = low,
                              !.high = low + pageSize - 1, !.lookups = 1,
                              !.marker = MarkerOf(this)]
  /\ UNCHANGED <<sessionVars, loadVars, memberVars, attrVars, attrCount, valRange>>

\* pages() that asks for the next window from the last index it asked for.
PageLoadedRepeats(data) ==
  /\ fr.pc = "loading"
  /\ LET entry == LdapEntry(data)
     IN fr' = IF hasMore(entry)
              THEN [fr EXCEPT !.ret = @ \o entry.values,
                              !.low = fr.high,
                              !.high = fr.high + fr.pageSize - 1,
                              !.lookups = @ + 1,
                              !.short = @ \/ entry.values = <<>>,
                              !.marker = MarkerOf(entry)]
              ELSE [fr EXCEPT !.pc = "done", !.ret = @ \o entry.values,
                              !.short = @ \/ entry.values = <<>>,
                              !.marker = MarkerOf(entry)]
  /\ UNCHANGED <<sessionVars, loadVars, memberVars, attrVars, attrCount, valRange>>

\* pages() that goes on until a marker ends with "*".
PageLoadedUntilStar(data) ==
  /\ fr.pc = "loading"
  /\ LET entry == LdapEntry(data)
     IN fr' = IF ~ \E o \in entry.options : o.star
              THEN [fr EXCEPT !.ret = @ \o entry.values,
                              !.low = fr.high + 1,
                              !.high = fr.high + 1 + fr.pageSize - 1,
                              !.lookups = @ + 1,
                              !.short = @ \/ entry.values = <<>>,
                              !.marker = MarkerOf(entry)]
              ELSE [fr EXCEPT !.pc = "done", !.ret = @ \o entry.values,
                              !.short = @ \/ entry.values = <<>>,
                              !.marker = MarkerOf(entry)]
  /\ UNCHANGED <<sessionVars, loadVars, memberVars, attrVars, attrCount, valRange>>

\* pages() after the await of range(): load() returned the entry built from
\* the server's answer data (or undefined); its values are yielded and
\* appended to ret, and unless hasMore is false the next window is asked
\* for.
PageLoaded(data) ==
  /\ fr.pc = "loading"
  /\ LET entry == LdapEntry(data)
     IN fr' = IF hasMore(entry)
              THEN [fr EXCEPT !.ret = @ \o entry.values,
                              !.low = fr.high + 1,
                              !.high = fr.high + 1 + fr.pageSize - 1,
                              !.lookups = @ + 1,
                              !.short = @ \/ entry.values = <<>>,
                              !.marker = MarkerOf(entry)]
              ELSE [fr EXCEPT !.pc = "done", !.ret = @ \o entry.values,
                              !.short = @ \/ entry.values = <<>>,
                              !.marker = MarkerOf(entry)]
  /\ UNCHANGED <<sessionVars, loadVars, memberVars, attrVars, attrCount, valRange>>

\* load() rejects: fullRange() throws.
RangeFails ==
  /\ fr.pc = "loading"
  /\ fr' = [fr EXCEPT !.pc = "failed"]
  /\ UNCHANGED <<sessionVars, loadVars, memberVars, attrVars, attrCount, valRange>>

\* An attribute of up to MaxValues values on a server that returns up to
\* MaxValRange of them at a time.
RangeInit ==
  /\ SessionIdle
  /\ LoadIdle
  /\ attrCount \in 0 .. MaxValues
  /\ valRange \in 1 .. MaxValRange
  /\ fr = NoCall
  /\ stored = {}
  /\ wr = NoWrite
  /\ lastWr = NoWrite
  /\ directory = NoDirectory
  /\ gm = NoTraversal

\* The answers a lookup of the window low-high may get: the window, nothing
\* under a marker that promises more, or no entry at all.
RangeNext ==
  \/ \E asked \in InitialAsks : FullRangeCall(ServerAnswer(asked))
  \/ PageLoaded(ServerAnswer(<<fr.low, fr.high>>))
  \/ PageLoaded(EmptyWindow(fr.low, fr.high))
  \/ PageLoaded(NoEntry)
  \/ RangeFails

RangeSpec == RangeInit /\ [][RangeNext]_vars

\* ------------------------------------------ pushAttribute / pullAttribute
AttrVals == 1 .. NumAttrVals

\* pushAttribute(dn, attribute, values) or pullAttribute(dn, attribute,
\* values), called when the call before it has returned, up to
\* `await this.get(dn)`.
AttrCall(op, values) ==
  /\ wr.pc \in {"idle", "done"}
  /\ lastWr' = [wr EXCEPT !.after = stored]
  /\ wr' = [NoWrite EXCEPT !.pc = "reading", !.op = op, !.values = values,
                           !.atCall = stored]
  /\ UNCHANGED <<sessionVars, loadVars, memberVars, rangeVars, stored>>

\* The call with its filter left out: it sends the values it was given.
AttrReadSendsAll ==
  /\ wr.pc = "reading"
  /\ wr' = [wr EXCEPT !.pc = "modifying", !.toSend = wr.values, !.requests = @ + 1]
  /\ UNCHANGED <<sessionVars, loadVars, memberVars, rangeVars, stored, lastWr>>

\* get() and fullRange() have returned the attribute's values: the call keeps
\* the values to add that are not among them (the values to delete that
\* are), returns true if none is left and else sends them with modify().
AttrRead ==
  /\ wr.pc = "reading"
  /\ LET existingValues == stored
         toSend == IF wr.op = "push"
                   THEN {v \in wr.values : v \notin existingValues}
                   ELSE {v \in wr.values : v \in existingValues}
     IN wr' = IF toSend = {}
              THEN [wr EXCEPT !.pc = "done", !.result = "true"]
              ELSE [wr EXCEPT !.pc = "modifying", !.toSend = toSend,
                              !.requests = @ + 1]
  /\ UNCHANGED <<sessionVars, loadVars, memberVars, rangeVars, stored, lastWr>>

\* The server answers the modify request: it adds (deletes) the values,
\* unless one of them is already there (is not there), which it answers with
\* an error that modify() throws.
ModifyAnswered ==
  /\ wr.pc = "modifying"
  /\ LET rejected == IF wr.op = "push" THEN wr.toSend \cap stored # {}
                     ELSE ~(wr.toSend \subseteq stored)
     IN /\ stored' = IF rejected THEN stored
                     ELSE IF wr.op = "push" THEN stored \cup wr.toSend
                     ELSE stored \ wr.toSend
        /\ wr' = [wr EXCEPT !.pc = "done",
                            !.result = IF rejected THEN "error" ELSE "true"]
  /\ UNCHANGED <<sessionVars, loadVars, memberVars, rangeVars, lastWr>>

AttrInit ==
  /\ SessionIdle
  /\ LoadIdle
  /\ attrCount = 0
  /\ valRange = MaxValRange
  /\ fr = NoCall
  /\ stored \in SUBSET AttrVals
  /\ wr = NoWrite
  /\ lastWr = NoWrite
  /\ directory = NoDirectory
  /\ gm = NoTraversal

AttrNext ==
  \/ \E op \in {"push", "pull"}, values \in SUBSET AttrVals \ {{}} :
       AttrCall(op, values)
  \/ AttrRead
  \/ ModifyAnswered

AttrSpec == AttrInit /\ [][AttrNext]_vars

\* ------------------------------------------------------ getMemberStream()
\* The forms of a DN: "cn=5", "cn=5\,x" (a value with a comma, which the
\* DN writes with a backslash), "cn=5\,x\,y" and "cn=5+sn=k" (a first
\* component of two attributes, as the DN of Amy Wong in the tests).
DnForms == {"plain", "comma", "commas", "multi"}
LastUser == NumGroups + NumUsers

\* The value of the cn attribute of entry n, the DN of the last entry being
\* of the given form.
CnOf(n, form) ==
  IF n # LastUser THEN <<ToString(n)>>
  ELSE CASE form = "comma" -> <<ToString(n), ",", "x">>
         [] form = "commas" -> <<ToString(n), ",", "x", ",", "y">>
         [] OTHER -> <<ToString(n)>>
Cn(n) == CnOf(n, directory.form)

\* A value as a DN writes it: a backslash before each comma.
RECURSIVE Escaped(_)
Escaped(value) ==
  IF value = <<>> THEN <<>>
  ELSE (IF Head(value) = "," THEN <<"\\", ",">> ELSE <<Head(value)>>)
         \o Escaped(Tail(value))

BaseOf(n) == IF n \in Groups THEN <<"ou=groups">> ELSE <<"ou=people">>

\* The DN of entry n, as the directory returns it in a member attribute.
DnOf(n, form) ==
  <<"cn", "=">> \o Escaped(CnOf(n, form))
    \o (IF n = LastUser /\ form = "multi"
        THEN <<"+", "sn", "=", "k">> ELSE <<>>)
    \o <<",">> \o BaseOf(n)
Dn(n) == DnOf(n, directory.form)

\* The DNs by which a caller can name the root group: the DN as the
\* directory returns it, and the same DN with its first attribute type in
\* capitals, which the directory matches without regard to case.
RootSpellings == {DnOf(Root, "plain"), <<"CN">> \o Tail(DnOf(Root, "plain"))}

\* members.map(searchForDN), for every DN that can be a member.
ParsedDn == [form \in DnForms |-> [n \in Nodes |-> searchForDN(DnOf(n, form))]]

\* The elements of a set of numbers in ascending order: the order in which
\* the directory returns values and entries.
RECURSIVE Ascending(_)
Ascending(S) ==
  IF S = {} THEN <<>> ELSE <<MinOf(S)>> \o Ascending(S \ {MinOf(S)})

\* What a search below basedn with scope 'sub' for an OrFilter of
\* EqualityFilters returns: the entries below basedn one of whose attributes
\* has the value a filter asks for.
SearchEntries(basedn, filters) ==
  {n \in Nodes : /\ BaseOf(n) = basedn
                 /\ \E i \in 1 .. Len(filters) :
                      filters[i] = [attribute |-> <<"cn">>, value |-> Cn(n)]}

\* Object.keys(store): the base DNs in the order of their first search.
RECURSIVE KeysOf(_, _)
KeysOf(searches, seen) ==
  IF searches = <<>> THEN <<>>
  ELSE IF Head(searches).basedn \in seen THEN KeysOf(Tail(searches), seen)
       ELSE <<Head(searches).basedn>>
              \o KeysOf(Tail(searches), seen \cup {Head(searches).basedn})

\* store[basedn]: an EqualityFilter for every search of that base DN.
RECURSIVE StoreOf(_, _)
StoreOf(searches, basedn) ==
  IF searches = <<>> THEN <<>>
  ELSE (IF Head(searches).basedn = basedn
        THEN <<[attribute |-> Head(searches).attr, value |-> Head(searches).val]>>
        ELSE <<>>) \o StoreOf(Tail(searches), basedn)

\* batchOnBase: for every base DN the batches of its filters, each batch the
\* filters of one OrFilter.
batchOnBase(searches, limit) ==
  LET keys == KeysOf(searches, {})
  IN [i \in 1 .. Len(keys) |->
        [basedn |-> keys[i], batches |-> batch(StoreOf(searches, keys[i]), limit)]]

\* The searches of the two loops of getMemberRecur, in their order.
RECURSIVE Lookups(_)
Lookups(batchMap) ==
  IF batchMap = <<>> THEN <<>>
  ELSE [j \in 1 .. Len(Head(batchMap).batches) |->
          [basedn |-> Head(batchMap).basedn, filters |-> Head(batchMap).batches[j]]]
         \o Lookups(Tail(batchMap))

\* The loop over groups, through the calls that await the running one: the
\* first group not in groupsExplored (sg, 0 if there is none) and the groups
\* arrays left to the calls that will await its getMemberRecur().
RECURSIVE NextGroup(_, _, _)
NextGroup(groups, stack, explored) ==
  IF groups # <<>>
  THEN IF Head(groups) \notin explored
       THEN [sg |-> Head(groups), stack |-> <<Tail(groups)>> \o stack]
       ELSE NextGroup(Tail(groups), stack, explored)
  ELSE IF stack = <<>> THEN [sg |-> 0, stack |-> <<>>]
       ELSE NextGroup(Head(stack), Tail(stack), explored)

\* The searches of the group are finished: getMemberRecur() goes on with the
\* first subgroup not explored yet, up to its `await g.fullRange('member')`,
\* or, all calls having returned, getMemberStream() ends the output.
Continue(g) ==
  LET nx == NextGroup(g.groups, g.stack, g.groupsExplored)
      h == [g EXCEPT !.expanded = @ \cup {g.cur}, !.groups = <<>>]
  IN IF nx.sg = 0
     THEN [h EXCEPT !.pc = "done", !.cur = 0, !.stack = <<>>,
                    !.ended = ~g.destroyed]
     ELSE [h EXCEPT !.pc = "range", !.cur = nx.sg, !.stack = nx.stack,
                    !.groupsExplored = @ \cup {nx.sg}]

\* The next search of the group opens its sub-stream, which takes a
\* connection; without a search left the group is finished.
OpenNext(g) ==
  IF g.lookups = <<>> THEN Continue(g)
  ELSE [g EXCEPT !.pc = "stream", !.open = @ + 1, !.lookups = Tail(@),
                 !.pending = Ascending(SearchEntries(Head(g.lookups).basedn,
                                                     Head(g.lookups).filters))]

\* getMemberStream(groupdn): the output stream is made and get(groupdn) is
\* under way.  The consumer is taken to read the output, so that a push()
\* that returns false is followed by the output's 'resume'.
\* groupsExplored starts as new Set([groupdn]), the DN as the caller wrote
\* it, and is tested with the dn of the entries the directory returns: it
\* is kept here as the entries whose dn is in the set.
GetMemberStream ==
  /\ gm.pc = "idle"
  /\ \E groupdn \in RootSpellings :
       gm' = [gm EXCEPT !.pc = "root",
                        !.groupsExplored = {n \in Nodes : Dn(n) = groupdn}]
  /\ UNCHANGED <<sessionVars, loadVars, rangeVars, attrVars, directory>>

\* get(groupdn) returns the group: getMemberRecur() awaits its fullRange().
RootFound ==
  /\ gm.pc = "root"
  /\ gm' = [gm EXCEPT !.pc = "range", !.cur = Root]
  /\ UNCHANGED <<sessionVars, loadVars, rangeVars, attrVars, directory>>

\* fullRange('member') returns the members of the group: their DNs are
\* parsed and batched, and the first search is opened.
MembersRead ==
  /\ gm.pc = "range"
  /\ \E members \in {Ascending(directory.member[gm.cur])} :
     \E searches \in {[i \in 1 .. Len(members) |-> ParsedDn[directory.form][members[i]]]} :
     \E batchMap \in {batchOnBase(searches, batchLimit)} :
       gm' = OpenNext([gm EXCEPT !.lookups = Lookups(batchMap)])
  /\ UNCHANGED <<sessionVars, loadVars, rangeVars, attrVars, directory>>

\* The sub-stream delivers an entry: one with a member is kept in groups,
\* any other is pushed to the output.  On an output its consumer has
\* destroyed push() adds nothing and returns false, and getMemberRecur()
\* awaits a 'resume' that the destroyed output does not emit.
EntryArrives ==
  /\ gm.pc = "stream"
  /\ gm.pending # <<>>
  /\ LET m == Head(gm.pending)
         isGroup == directory.member[m] # {}
     IN gm' = IF isGroup
              THEN [gm EXCEPT !.pending = Tail(@), !.groups = Append(@, m)]
              ELSE IF gm.destroyed
              THEN [gm EXCEPT !.pending = Tail(@), !.pc = "blocked"]
              ELSE [gm EXCEPT !.pending = Tail(@), !.emitted[m] = @ + 1]
  /\ UNCHANGED <<sessionVars, loadVars, rangeVars, attrVars, directory>>

\* StreamEnds with the next search opened as soon as the sub-stream has
\* delivered its last entry, before its connection is released.
StreamEndsHolding ==
  /\ gm.pc = "stream"
  /\ gm.pending = <<>>
  /\ gm' = OpenNext(gm)
  /\ UNCHANGED <<sessionVars, loadVars, rangeVars, attrVars, directory>>

\* The sub-stream ends, having released its connection: the next search of
\* the group is opened, or the group is finished.
StreamEnds ==
  /\ gm.pc = "stream"
  /\ gm.pending = <<>>
  /\ gm' = OpenNext([gm EXCEPT !.open = @ - 1])
  /\ UNCHANGED <<sessionVars, loadVars, rangeVars, attrVars, directory>>

\* get(groupdn) rejects, or returns no entry and g.fullRange throws: the
\* catch of getMemberStream() destroys the output.
RootFails ==
  /\ gm.pc = "root"
  /\ gm' = [gm EXCEPT !.pc = "failed", !.destroyed = TRUE, !.failures = @ + 1]
  /\ UNCHANGED <<sessionVars, loadVars, rangeVars, attrVars, directory>>

\* fullRange('member') rejects: a lookup of a further window failed.
MembersFail ==
  /\ gm.pc = "range"
  /\ gm' = [gm EXCEPT !.pc = "failed", !.destroyed = TRUE, !.failures = @ + 1]
  /\ UNCHANGED <<sessionVars, loadVars, rangeVars, attrVars, directory>>

\* StreamFails with the error of the sub-stream swallowed: the traversal
\* goes on as if the sub-stream had ended.
StreamFailsQuietly ==
  /\ gm.pc = "stream"
  /\ gm' = OpenNext([gm EXCEPT !.open = @ - 1, !.pending = <<>>, !.failures = @ + 1])
  /\ UNCHANGED <<sessionVars, loadVars, rangeVars, attrVars, directory>>

\* The sub-stream emits 'error', having released its connection if it had
\* one: the for await throws, through every getMemberRecur() that awaits.
StreamFails ==
  /\ gm.pc = "stream"
  /\ gm' = [gm EXCEPT !.pc = "failed", !.open = @ - 1, !.destroyed = TRUE,
                     !.failures = @ + 1]
  /\ UNCHANGED <<sessionVars, loadVars, rangeVars, attrVars, directory>>

\* The consumer destroys the output before its end: ret.destroy(), or a
\* break or a throw inside its for await.
ConsumerDestroys ==
  /\ gm.pc \in {"root", "range", "stream"}
  /\ ~gm.destroyed
  /\ gm' = [gm EXCEPT !.destroyed = TRUE]
  /\ UNCHANGED <<sessionVars, loadVars, rangeVars, attrVars, directory>>

\* Nobody reads the sub-stream while getMemberRecur() awaits 'resume': its
\* producer pushes the entries left into the sub-stream's buffer, and if
\* every push() returned true it pushes the end and releases its
\* connection; else it awaits an unpause of its own.
SubStreamDrains ==
  /\ gm.pc = "blocked"
  /\ gm.open = 1
  /\ Len(gm.pending) < HighWaterMark
  /\ gm' = [gm EXCEPT !.open = 0, !.pending = <<>>]
  /\ UNCHANGED <<sessionVars, loadVars, rangeVars, attrVars, directory>>

\* The search of the sub-stream fails while getMemberRecur() awaits
\* 'resume': the producer's finally releases the connection, and the error
\* waits in the sub-stream that nobody reads.
SubStreamFailsUnread ==
  /\ gm.pc = "blocked"
  /\ gm.open = 1
  /\ gm' = [gm EXCEPT !.open = 0]
  /\ UNCHANGED <<sessionVars, loadVars, rangeVars, attrVars, directory>>

\* The directories: any memberships among the groups and the other entries,
\* the last group having no subgroups.
Directories ==
  {[member |-> [n \in Nodes |-> IF n \in Groups \ {NumGroups} THEN f[n]
                                ELSE IF n = NumGroups THEN l ELSE {}],
    form |-> d] :
     f \in [Groups \ {NumGroups} -> SUBSET Nodes], l \in SUBSET Users,
     d \in DnForms}

MemberInit ==
  /\ SessionIdle
  /\ LoadIdle
  /\ attrCount = 0
  /\ valRange = MaxValRange
  /\ fr = NoCall
  /\ stored = {}
  /\ wr = NoWrite
  /\ lastWr = NoWrite
  /\ directory \in Directories
  /\ gm = NoTraversal

TraversalProgress == RootFound \/ MembersRead \/ EntryArrives \/ StreamEnds

MemberNext ==
  \/ GetMemberStream
  \/ RootFound
  \/ MembersRead
  \/ EntryArrives
  \/ StreamEnds
  \/ RootFails
  \/ MembersFail
  \/ StreamFails

MemberSpec == MemberInit /\ [][MemberNext]_vars

\* Every sub-fetch is answered in the end.
MemberFairSpec == MemberSpec /\ WF_vars(GetMemberStream) /\ WF_vars(TraversalProgress)

\* The directories in which the root is a member of one of its own members,
\* with DNs of the plain form.
CyclicDirectories ==
  {d \in Directories :
     /\ d.form = "plain"
     /\ \E b \in Groups \ {Root} : b \in d.member[Root] /\ Root \in d.member[b]}
RootInCycle == directory \in CyclicDirectories

\* The application fills the directory before it asks for the members.
Populate ==
  /\ gm.pc = "idle"
  /\ directory = NoDirectory
  /\ directory' \in CyclicDirectories
  /\ UNCHANGED <<sessionVars, loadVars, rangeVars, attrVars, gm>>

CycleInit == MemberInit /\ directory = NoDirectory
CycleNext == Populate \/ MemberNext
CycleSpec == CycleInit /\ [][CycleNext]_vars
CycleFairSpec == CycleSpec /\ WF_vars(GetMemberStream) /\ WF_vars(TraversalProgress)

\* The application fills the directory with any groups and members, their
\* DNs of the plain form, before it asks for the members.
PopulateAny ==
  /\ gm.pc = "idle"
  /\ directory = NoDirectory
  /\ directory' \in {d \in Directories : d.form = "plain"}
  /\ UNCHANGED <<sessionVars, loadVars, rangeVars, attrVars, gm>>

TraverseNext == PopulateAny \/ MemberNext
TraverseSpec == CycleInit /\ [][TraverseNext]_vars
TraverseFairSpec == TraverseSpec /\ WF_vars(GetMemberStream) /\ WF_vars(TraversalProgress)

\* The traversal with a consumer that may destroy the output.
DestroyNext ==
  \/ TraverseNext
  \/ ConsumerDestroys
  \/ SubStreamDrains
  \/ SubStreamFailsUnread
DestroySpec == CycleInit /\ [][DestroyNext]_vars

\* Every sub-fetch is answered in the end, and a sub-stream that can end
\* ends.
DestroyFairSpec ==
  /\ DestroySpec
  /\ WF_vars(GetMemberStream)
  /\ WF_vars(TraversalProgress)
  /\ WF_vars(SubStreamDrains)

\* ---------------------------------------------- operations issued at once
\* The application issues its operations in one turn, on the empty pool, and
\* then consumes what they deliver: search() reads its stream to the end.
\* The server is reachable: every bind and every request succeeds.
Started == {o \in Ops : pc[o] # "init"}
FirstTurn == \A o \in Ops : pc[o] \in {"init", "connecting", "queued"}

ServedProgress(o) ==
  \/ BindOk(o)
  \/ Resume(o)
  \/ WriteDone(o, TRUE)
  \/ WaitRelease(o)
  \/ SearchSent(o)
  \/ \E n \in 0 .. MaxPageEntries, more \in BOOLEAN : PageArrives(o, n, more)
  \/ ProducerResume(o)
  \/ CloseEvent(o)

Consume(o) ==
  \/ Read(o)
  \/ EndOfStream(o)

ConcurrentNext ==
  \/ \E o \in Ops, k \in {"stream", "write", "wait"} : FirstTurn /\ StartOp(o, k)
  \/ \E o \in Ops : ServedProgress(o)
  \/ \E o \in Ops : Consume(o)

ConcurrentSpec == Init /\ [][ConcurrentNext]_vars

\* Every continuation runs, the server answers and search() keeps reading.
ConcurrentFairSpec ==
  /\ ConcurrentSpec
  /\ \A o \in Ops : WF_vars(ServedProgress(o))
  /\ \A o \in Ops : WF_vars(Consume(o))

TypeOK ==
  /\ poolSize \in 1 .. MaxPoolSize
  /\ \A i \in 1 .. Len(clients) : clients[i] \in Conns
  /\ busy \in [Conns -> BOOLEAN]
  /\ isConnected \in [Conns -> BOOLEAN]
  /\ \A i \in 1 .. Len(poolQueue) : poolQueue[i] \in Ops
  /\ closeRequest \in Closers \cup {None}
  /\ idleTimeoutSeconds \in {None, IdleTimeout}
  /\ intervalTimer \in BOOLEAN
  /\ \A c \in Conns : lastUsed[c] = <<>> \/ lastUsed[c][1] \in 0 .. IdleTimeout
  /\ \A o \in Ops : held[o] \in Conns \cup {None}
  /\ \A o \in Ops : Len(buf[o]) <= HighWaterMark
  /\ \A o \in Ops : got[o] <= sent[o] /\ sent[o] <= MaxPages * MaxPageEntries
  /\ \A k \in Keys : loadPromises[k] \in {None} \cup 1 .. Len(promises)
  /\ \A p \in 1 .. Len(promises) :
       /\ promises[p].key \in Keys
       /\ promises[p].state \in {"pending", "resolved", "rejected"}
       /\ promises[p].calls >= Cardinality(promises[p].waiters)
  /\ attrCount \in 0 .. MaxValues
  /\ valRange \in 1 .. MaxValRange
  /\ fr.pc \in {"idle", "loading", "done", "failed"}
  /\ fr.marker \in {"none", "open", "star"}
  /\ stored \subseteq AttrVals
  /\ wr.pc \in {"idle", "reading", "modifying", "done"}
  /\ wr.result \in {"none", "true", "error"}
  /\ directory.member \in [Nodes -> SUBSET Nodes]
  /\ directory.form \in DnForms
  /\ gm.pc \in {"idle", "root", "range", "stream", "blocked", "done", "failed"}
  /\ gm.cur \in Groups \cup {0}
  /\ gm.open \in 0 .. 1
  /\ gm.failures \in 0 .. 1
  /\ gm.groupsExplored \subseteq Groups
  /\ gm.expanded \subseteq Groups
  /\ \A i \in 1 .. Len(gm.pending) : gm.pending[i] \in Nodes


\* ------------------------------------------------------------------ claims
\* An operation that will take no further step: it returned or threw, or it
\* is a stream whose producer awaits unpause after the consumer destroyed
\* the stream (a destroyed Readable calls _read() no more).
Settled(o) ==
  \/ pc[o] \in {"done", "failed"}
  \/ pc[o] = "paused" /\ destroyed[o]

\* The positions of the pool's connections that are marked busy.
BusyInPool == {i \in 1 .. Len(clients) : busy[clients[i]]}

\* The connections some operation has checked out or is establishing.
CheckedOut ==
  {held[o] : o \in {p \in Ops : pc[p] \in Holding \cup
                                  {"connecting", "rebinding", "unbinding"}}}

\* A stream in a terminal state: destroyed by its consumer (or by autoDestroy
\* after 'end'), errored, or ended with nothing left to read.
StreamTerminal(o) ==
  /\ kind[o] = "stream"
  /\ destroyed[o] \/ errored[o] \/ (ended[o] /\ buf[o] = <<>>)

\* An operation that holds a connection or is establishing one.
Engaged == {"connecting", "rebinding", "unbinding", "handed", "gotClient",
            "active", "paused", "resumed"}

\* This step is close() k calling unbind() on the next connection it took
\* out of the pool.
UnbindCalled(k) ==
  /\ cpc'[k] = "unbinding"
  /\ cpc[k] # "unbinding" \/ closing'[k] # closing[k]

\* C1: every operation calls release() at most once per connection that
\* getClient() returned to it, never without one, and exactly once by the
\* time it has reached its terminal state (returned, failed, or a stream
\* destroyed by its consumer).
ReleaseExactlyOnce ==
  \A o \in Ops :
    /\ rel[o] <= acq[o]
    /\ Settled(o) => rel[o] = acq[o]

\* C2: no two operations hold the same connection at the same time between
\* getClient() returning it and their release().
ExclusiveOwnership ==
  \A o1, o2 \in Ops :
    (o1 # o2 /\ pc[o1] \in Holding /\ pc[o2] \in Holding) => held[o1] # held[o2]

\* C3: the pool never holds more than poolSize connections (each of them
\* once), never more than poolSize of them are busy, and as long as no
\* close() has been called the operations have no more than poolSize
\* connections checked out or being established.
PoolBounded ==
  /\ Len(clients) <= poolSize
  /\ \A i, j \in 1 .. Len(clients) : clients[i] = clients[j] => i = j
  /\ Cardinality(BusyInPool) <= poolSize
  /\ (\A k \in Closers : cpc[k] = "init") => Cardinality(CheckedOut) <= poolSize

\* C3 witness: a pool of the largest size at capacity, every connection
\* busy and an acquirer waiting.
PoolSaturated ==
  /\ poolSize = MaxPoolSize
  /\ Len(clients) = poolSize
  /\ Cardinality(BusyInPool) = poolSize
  /\ poolQueue # <<>>

\* C4: when a stream that holds a connection is in a terminal state
\* (destroyed, errored, or ended and read to the end), that connection
\* eventually is not busy.
StreamConnectionFreed ==
  \A o \in Ops : \A c \in Conns :
    (StreamTerminal(o) /\ pc[o] \in Holding /\ held[o] = c) ~> ~busy[c]

\* C5: a stream destroyed while its producer awaits unpause still releases
\* its connection.
PausedStreamReleased ==
  \A o \in Ops : (pc[o] = "paused" /\ destroyed[o]) ~> (rel[o] = 1)

\* C6: release() hands the released connection to the acquirer that has
\* waited longest: an acquirer is resolved only when none that was enqueued
\* before it still waits, and it is resolved with the connection released in
\* that step.
FifoHandOff ==
  [][\A o \in Ops :
       (pc[o] = "queued" /\ pc'[o] # "queued") =>
         /\ pc'[o] = "handed"
         /\ ~ \E w \in Ops : <<w, o>> \in before /\ pc[w] = "queued"
         /\ \E p \in Ops : /\ rel'[p] = rel[p] + 1
                           /\ held[p] = held'[o]
                           /\ ~busy'[held'[o]]]_vars

\* C6 witness: an acquirer was handed a connection while another one that
\* had queued up behind it still waits.
HandedAheadOfLater ==
  \E o, w \in Ops : pc[o] = "handed" /\ pc[w] = "queued"

\* C7: provided every operation that holds or is establishing a connection
\* eventually finishes with it, every queued acquirer is eventually handed a
\* connection.
WaiterServed ==
  (\A o \in Ops : (pc[o] \in Engaged) ~> (pc[o] \notin Engaged))
    => (\A o \in Ops : (pc[o] = "queued") ~> (pc[o] = "handed"))

\* C8: at the moment close() calls unbind() on a connection, no operation
\* holds that connection and none of the connections close() took out of
\* the pool is busy.
CloseUnbindsIdleOnly ==
  [][\A k \in Closers :
       UnbindCalled(k) =>
         /\ ~ \E o \in Ops : pc'[o] \in Holding /\ held'[o] = Head(closing'[k])
         /\ \A i \in 1 .. Len(closing'[k]) : ~busy'[closing'[k][i]]]_vars

\* C9: provided every operation in flight eventually finishes, a close()
\* that waits for busy connections eventually resolves.
CloseResolves ==
  (\A o \in Ops : (pc[o] \in InFlight) ~> (pc[o] \notin InFlight))
    => (\A k \in Closers : (cpc[k] = "waiting") ~> (cpc[k] = "done"))

\* C10: when a close() call resolves, the pool is empty and no drain request
\* is pending.
ClosedPoolIsEmpty ==
  [][\A k \in Closers :
       (cpc[k] # "done" /\ cpc'[k] = "done") =>
         (clients' = <<>> /\ closeRequest' = None)]_vars

\* C11: when establishing a connection has failed, getClient() rejects
\* without having returned a connection, the failed connection is no longer
\* in the pool, and if it was in the pool the pool is below poolSize, so the
\* next getClient() that finds no idle connection creates a fresh one.
FailedConnectDiscarded ==
  [][\A o \in Ops :
       (pc[o] = "unbinding" /\ pc'[o] # "unbinding") =>
         /\ pc'[o] \in {"failed", "faulted", "retry"}
         /\ acq'[o] = acq[o]
         /\ \A i \in 1 .. Len(clients') : clients'[i] # held[o]
         /\ InPool(held[o]) => Len(clients') < poolSize]_vars

\* C11 witness: an operation whose connect failed has been rejected and the
\* pool holds no connection.
ConnectRejected ==
  \E o \in Ops : pc[o] \in {"failed", "retry"} /\ acq[o] = 0 /\ clients = <<>>

\* C12: whenever getClient() returns a connection to an operation, that
\* connection is connected.
ConnectedWhenReturned ==
  [][\A o \in Ops :
       acq'[o] = acq[o] + 1 => isConnected'[held'[o]]]_vars

\* C12 witness: getClient() found an idle connection disconnected, or was
\* handed one, and is re-binding it before it returns.
RebindingBeforeReturn ==
  \E o \in Ops : pc[o] = "rebinding" /\ ~isConnected[held[o]] /\ acq[o] = 0

\* C15: whenever a stream emits 'error', it has released every connection
\* getClient() returned to it.
ReleasedBeforeError ==
  [][\A o \in Ops : (~errored[o] /\ errored'[o]) => rel[o] = acq[o]]_vars

\* C15 witness: a stream that had a connection emitted 'error' and has
\* released the connection.
ErrorAfterRelease ==
  \E o \in Ops : errored[o] /\ acq[o] = 1 /\ rel[o] = 1 /\ pagesGot[o] > 0

\* C16: once a stream is destroyed, no record is added to its buffer and no
\* 'error' is emitted on it.
QuietAfterDestroy ==
  [][\A o \in Ops :
       destroyed[o] =>
         (Len(buf'[o]) <= Len(buf[o]) /\ (errored'[o] => errored[o]))]_vars

\* C17: while the producer awaits unpause, no page is received and no record
\* is pushed, and the producer leaves the await only by a read of the
\* consumer that calls _read().
PausedProducerIdle ==
  [][\A o \in Ops :
       pc[o] = "paused" =>
         /\ pagesGot'[o] = pagesGot[o]
         /\ Len(buf'[o]) <= Len(buf[o])
         /\ pc'[o] # "paused" =>
              (pc'[o] = "resumed" /\ Len(buf'[o]) < Len(buf[o]))]_vars

\* C17 witness: a producer awaits unpause while the search has a further
\* page to deliver.
PausedWithPagesLeft ==
  \E o \in Ops : pc[o] = "paused" /\ morePages[o] /\ ~destroyed[o]

\* C18: the consumer reads the entries in the order the server sent them,
\* none twice and none left out, and the stream ends (and is destroyed by
\* autoDestroy) only when the last entry sent has been read; and a producer
\* that awaits unpause on a stream that is not destroyed has records in the
\* buffer, so that the consumer's next read calls _read() and resumes it.
InOrderExactlyOnce ==
  /\ [][\A o \in Ops :
         (got'[o] # got[o] /\ canceled'[o] = canceled[o]) =>
           /\ got'[o] = got[o] + 1
           /\ destroyed'[o] => got'[o] = sent[o]]_vars
  /\ [](\A o \in Ops :
          /\ (ended[o] /\ buf[o] = <<>> /\ ~destroyed[o]) => got[o] = sent[o]
          /\ (pc[o] = "paused" /\ ~destroyed[o]) =>
                (buf[o] # <<>> /\ Len(buf[o]) - 1 < HighWaterMark))

\* C18 witness: a consumer has read the entries of two pages to the end, and
\* the producer had to be resumed on the way.
ReadToTheEnd ==
  \E o \in Ops : /\ ended[o] /\ buf[o] = <<>>
                  /\ pagesGot[o] = MaxPages
                  /\ got[o] = MaxPages * MaxPageEntries

\* No operation is under way (and none will be while this lasts).
Quiet == \A o \in Ops : pc[o] \in {"init", "done", "failed"}

\* C13: if from some time on no operation is under way, so that every
\* connection of the pool is idle, the pool is emptied and the cleanup
\* timer cleared, and they stay so.
IdlePoolEmptied ==
  <>[]Quiet => <>[](clients = <<>> /\ ~intervalTimer)

\* C13 witness: operations have run and ended, and the cleanup timer has
\* emptied the pool and cleared itself.
CleanedUp ==
  /\ idleTimeoutSeconds # None
  /\ clients = <<>>
  /\ ~intervalTimer
  /\ \A c \in Conns : ~isConnected[c]
  /\ \A k \in Closers : cpc[k] = "init"
  /\ \E o \in Ops : pc[o] = "done"

\* C14: a connection leaves the pool in idleCleanup() only if it is not
\* busy and was released at least the idle timeout ago, and is then
\* unbound; every other connection stays in the pool, in the same order and
\* as it was.  (The other steps that take connections out of the pool are
\* the end of a failed bind, by the operation that holds the connection, and
\* close(), that takes them all.)
CleanupOnlyExpired ==
  [][\A c \in Conns :
       (/\ InPool(c)
        /\ ~ \E o \in Ops : pc[o] = "unbinding" /\ held[o] = c
        /\ closing' = closing) =>
         IF ~busy[c] /\ lastUsed[c] # <<>> /\ lastUsed[c][1] >= idleTimeoutSeconds
         THEN (\A i \in 1 .. Len(clients') : clients'[i] # c) => ~isConnected'[c]
         ELSE /\ \E i \in 1 .. Len(clients') : clients'[i] = c
              /\ clients' # clients =>
                   (busy'[c] = busy[c] /\ isConnected'[c] = isConnected[c]
                    /\ lastUsed'[c] = lastUsed[c])]_vars

\* C14 witness: the cleanup timer runs on a pool that holds a busy
\* connection next to an idle one whose timeout has passed.
ExpiredNextToBusy ==
  /\ intervalTimer
  /\ \E i, j \in 1 .. Len(clients) :
       /\ busy[clients[i]]
       /\ ~busy[clients[j]] /\ lastUsed[clients[j]] = <<IdleTimeout>>


\* C19: the load() calls that share one tick and one key, M of them, cause at
\* most ceil(M / 100) searches, and none of these searches joins more than
\* 100 filters.
BatchedSearches ==
  \A p \in 1 .. Len(promises) :
    /\ Len(promises[p].searches) <= (promises[p].calls + 99) \div 100
    /\ \A i \in 1 .. Len(promises[p].searches) :
         Len(promises[p].searches[i].filters) <= 100

\* 201 calls for 201 identifiers went out as three searches, the first two
\* with 100 filters each.
ThreeBatches ==
  /\ promises # <<>>
  /\ promises[1].calls = 201
  /\ Len(promises[1].searches) = 3
  /\ Len(promises[1].searches[1].filters) = 100
  /\ Len(promises[1].searches[3].filters) = 1

\* The search of promise p that looked for dn.
SearchFor(p, dn) ==
  LET s == searchForDN(dn)
  IN {i \in 1 .. Len(promises[p].searches) :
        /\ promises[p].searches[i].base = s.basedn
        /\ filter(s.attr, s.val) \in Range(promises[p].searches[i].filters)}

\* C20: a load() call attaches only to a promise whose timer has not fired
\* yet, a call made after the timer starting a new promise with a timer of
\* its own; until the timer fires the call's filter waits in the set the
\* timer will read, afterwards it is part of one of the promise's searches;
\* the promise resolves only if that search succeeded and rejects only if a
\* search failed; and every promise settles in the end.
LoadServedByOwnSearch ==
  /\ [][\A p \in 1 .. Len(promises') :
          (p > Len(promises) \/ promises'[p].calls # promises[p].calls)
            => promises'[p].timer]_vars
  /\ [](\A p \in 1 .. Len(promises) : \A dn \in promises[p].waiters :
          IF promises[p].timer
          THEN /\ loadPromises[promises[p].key] = p
               /\ filter(searchForDN(dn).attr, searchForDN(dn).val)
                    \in Range(loadPairs[promises[p].key])
          ELSE /\ SearchFor(p, dn) # {}
               /\ promises[p].state = "resolved" =>
                    \A i \in SearchFor(p, dn) : promises[p].searches[i].state = "ok"
               /\ promises[p].state = "rejected" =>
                    \E i \in 1 .. Len(promises[p].searches) :
                       promises[p].searches[i].state = "failed")
  /\ \A p \in 1 .. MaxLoads :
       (Len(promises) >= p) ~> (Len(promises) >= p /\ promises[p].state # "pending")

\* A second promise of a key was created, sent its search and resolved while
\* the search of the first was still on its way.
OverlappingBursts ==
  \E p, q \in 1 .. Len(promises) :
    /\ p < q
    /\ promises[p].key = promises[q].key
    /\ promises[p].state = "pending"
    /\ promises[q].state = "resolved"
    /\ promises[q].waiters \cap promises[p].waiters # {}


\* C27: when the server rejects the request of a write operation, the
\* operation throws, it releases the connection it used, and the connection
\* stays where it was: a connection of the pool is still in the pool, not
\* busy (until the next acquirer takes it) and as connected as before.
RejectedWriteReleases ==
  [][\A o \in Ops :
       (kind[o] = "write" /\ pc[o] = "active" /\ pc'[o] = "failed") =>
         /\ rel'[o] = rel[o] + 1
         /\ clients' = clients
         /\ ~busy'[held[o]]
         /\ isConnected'[held[o]] = isConnected[held[o]]]_vars

\* A write operation has failed with the connection it used idle and still
\* connected in the pool.
RejectedWithIdlePool ==
  \E o \in Ops :
    /\ kind[o] = "write" /\ pc[o] = "failed" /\ acq[o] = 1 /\ rel[o] = 1
    /\ clients # <<>>
    /\ \A i \in 1 .. Len(clients) : ~busy[clients[i]] /\ isConnected[clients[i]]

\* C30: wait() never throws; it returns only out of a getClient() that
\* succeeded, in the continuation that follows it, after releasing the
\* connection, which stays in the pool and is not busy; a getClient() that
\* failed sends it to sleep, and when it wakes up it calls getClient() again.
WaitProbesUntilConnected ==
  [][\A o \in Ops : kind'[o] = "wait" =>
       /\ pc'[o] # "failed"
       /\ (pc[o] # "done" /\ pc'[o] = "done") => pc[o] = "gotClient"
       /\ (pc[o] = "gotClient" /\ pc'[o] # "gotClient") =>
            /\ pc'[o] = "done"
            /\ rel'[o] = rel[o] + 1
            /\ clients' = clients
            /\ ~busy'[held[o]]
       /\ (pc[o] = "unbinding" /\ pc'[o] # "unbinding") => pc'[o] = "retry"
       /\ (pc[o] = "retry" /\ pc'[o] # "retry") =>
            pc'[o] \in {"connecting", "rebinding", "queued", "gotClient"}]_vars

\* One wait() has returned and left its connection idle in the pool while
\* another sleeps after a failed bind.
WaitReturnedWaitRetrying ==
  \E o, w \in Ops :
    /\ kind[o] = "wait" /\ pc[o] = "done" /\ rel[o] = 1
    /\ kind[w] = "wait" /\ pc[w] = "retry"
    /\ clients # <<>> /\ \A i \in 1 .. Len(clients) : ~busy[clients[i]]


\* C28: of N operations issued at once on an empty pool of size K against a
\* reachable server, the first min(N, K) each create a connection and no
\* other connection is ever created; none of the operations fails, all of
\* them complete, and from then on no connection of the pool is busy and the
\* queue is empty.
ConcurrentOpsServed ==
  /\ [](Len(clients) = Min(Cardinality(Started), poolSize))
  /\ [](\A o \in Ops : pc[o] # "failed" /\ ~errored[o])
  /\ <>[](/\ \A o \in Started : pc[o] = "done"
          /\ \A i \in 1 .. Len(clients) : ~busy[clients[i]]
          /\ poolQueue = <<>>)

\* Three operations on a pool of two have all completed, over two
\* connections that are idle again.
ThreeServedByTwo ==
  /\ Cardinality(Started) = 3
  /\ \A o \in Ops : pc[o] = "done" /\ acq[o] = 1 /\ rel[o] = 1
  /\ Len(clients) = 2
  /\ \A i \in 1 .. Len(clients) : ~busy[clients[i]]
  /\ poolQueue = <<>>


\* C21: what fullRange() has collected is at every moment the attribute's
\* first values, each once and in the server's order; and when it returns
\* after lookups that all brought values, it returns all of them: the
\* windows one after the other.
FullRangeConcatenates ==
  /\ Len(fr.ret) <= attrCount
  /\ \A i \in 1 .. Len(fr.ret) : fr.ret[i] = i
  /\ (fr.pc = "done" /\ ~fr.short) => Len(fr.ret) = attrCount

\* fullRange() has returned all the values of an attribute it read in
\* three windows or more.
ThreeWindowsRead ==
  /\ fr.pc = "done"
  /\ fr.lookups >= 2
  /\ ~fr.short
  /\ Len(fr.ret) = attrCount

\* C22: a lookup that brings no value (an empty window or no entry) ends
\* fullRange(): it returns what it had, and makes no further lookup.
EmptyWindowEnds ==
  [][(fr.pc = "loading" /\ fr'.pc # "failed" /\ fr'.short /\ ~fr.short)
       => (fr'.pc = "done" /\ fr'.ret = fr.ret /\ fr'.lookups = fr.lookups)]_vars

\* fullRange() has returned short of the attribute's values, after a lookup
\* that brought none.
ReturnedShort ==
  /\ fr.pc = "done"
  /\ fr.short
  /\ Len(fr.ret) < attrCount


\* C29: a pushAttribute() whose values were all there when it was called,
\* and a pullAttribute() none of whose values was there, return true without
\* a modify request; and a call that repeats the call before it (same
\* operation, same values) returns true and leaves the directory as the
\* first call left it.
PushPullIdempotent ==
  wr.pc = "done" =>
    /\ (wr.op = "push" /\ wr.values \subseteq wr.atCall) =>
         (wr.requests = 0 /\ wr.result = "true")
    /\ (wr.op = "pull" /\ wr.values \cap wr.atCall = {}) =>
         (wr.requests = 0 /\ wr.result = "true")
    /\ (lastWr.op = wr.op /\ lastWr.values = wr.values) =>
         (wr.result = "true" /\ lastWr.result = "true" /\ stored = lastWr.after)

\* A push that added values has been repeated.
PushRepeated ==
  /\ wr.pc = "done"
  /\ wr.op = "push"
  /\ lastWr.op = "push"
  /\ lastWr.values = wr.values
  /\ lastWr.requests = 1
  /\ wr.requests = 0

\* The groups getMemberStream() reaches from the root through chains of
\* subgroups, and the entries other than groups that are members of one.
ReachableGroups ==
  LET RECURSIVE Closure(_)
      Closure(S) ==
        LET T == S \cup {g \in Groups : \E h \in S : g \in directory.member[h]}
        IN IF T = S THEN S ELSE Closure(T)
  IN Closure({Root})
ReachableUsers == {u \in Users : \E g \in ReachableGroups : u \in directory.member[g]}

\* C23: getMemberStream() pushes no entry that is not a group to its output
\* more than once, however many of the groups it walks have the entry as a
\* member.
EmitsEachMemberOnce == \A u \in Users : gm.emitted[u] <= 1

\* C25: when getMemberStream() ends its output, every entry other than a
\* group that is a member of the root or of a group reachable from it has
\* been pushed to the output, and every reachable group with members has had
\* all of its searches finished.
ReachableEmittedBeforeEnd ==
  gm.ended =>
    /\ \A u \in ReachableUsers : gm.emitted[u] >= 1
    /\ \A g \in ReachableGroups : directory.member[g] # {} => g \in gm.expanded

\* The same for the directories whose DNs searchForDN reads back: those whose
\* first component has one attribute and at most one escaped character.
ReachableEmittedWhenParsed ==
  (\A n \in Nodes : ParsedDn[directory.form][n].val = Cn(n)) => ReachableEmittedBeforeEnd

\* The traversal of a directory with a cycle through the root comes to its
\* end.
CycleTerminates == (RootInCycle /\ gm.pc = "root") ~> (gm.pc \in {"done", "failed"})

\* C24: with the root group a member of one of its own members,
\* getMemberStream() comes to an end, and when it has ended its output it has
\* pushed every reachable entry that is not a group exactly once.
CycleYieldsEachOnce ==
  /\ (RootInCycle /\ gm.pc = "root") ~> (gm.pc \in {"done", "failed"})
  /\ []((RootInCycle /\ gm.ended) => \A u \in ReachableUsers : gm.emitted[u] = 1)

\* C26: once a sub-fetch of the traversal has failed (get() of the root,
\* fullRange() of a group or the sub-stream of a search), the output is
\* destroyed and never gets its end, the traversal takes no further step,
\* and no sub-stream holds a connection.
SubFetchFailureDestroys ==
  /\ [](gm.failures > 0 =>
          /\ gm.pc = "failed"
          /\ gm.destroyed
          /\ ~gm.ended
          /\ gm.open = 0)
  /\ [][gm.failures > 0 => gm' = gm]_vars

\* The sub-stream of a search for the members of a subgroup failed with
\* entries still to deliver, after an entry had been pushed to the output.
SubStreamFailedBelowRoot ==
  /\ gm.failures = 1
  /\ gm.cur # Root
  /\ gm.pending # <<>>
  /\ \E u \in Users : gm.emitted[u] = 1

\* C31: a getClient() call made while the wait-queue is not empty (by an
\* operation that starts, or by wait() trying again) is itself queued: it
\* neither takes an idle connection nor creates a new one.
NoQueueJumping ==
  [][\A o \in Ops :
       (pc[o] \in {"init", "retry"} /\ pc'[o] \notin {"init", "retry"} /\ poolQueue # <<>>)
         => pc'[o] = "queued"]_vars

\* C32: while an acquirer waits in the queue the pool holds poolSize
\* connections and every one of them is busy.
QueueOnlyAtCapacity ==
  poolQueue # <<>> =>
    /\ Len(clients) = poolSize
    /\ \A i \in 1 .. Len(clients) : busy[clients[i]]

\* C33: when a close() call resolves, also one made while an earlier call
\* waits for busy connections, no connection of the pool is busy and no
\* operation holds a connection.
CloseWaitsForBusy ==
  [][\A k \in Closers :
       (cpc[k] # "done" /\ cpc'[k] = "done") =>
         /\ \A i \in 1 .. Len(clients') : ~busy'[clients'[i]]
         /\ \A o \in Ops : pc'[o] \notin Holding]_vars


\* C34: fullRange() makes a lookup only after an entry whose attribute
\* carries a range marker that does not end with "*": the entry it was
\* called on as well as every entry a lookup returned.  Once the entry read
\* has no marker, or one that ends with "*", no lookup follows.
NoLookupPastTheEnd ==
  [][fr'.lookups > fr.lookups => fr'.marker = "open"]_vars


\* C35: during one getMemberStream() no group is expanded twice: the
\* members of a group, the root included, are not read again once its
\* searches have been finished.
ExpandsEachGroupOnce ==
  [][(gm.pc = "range" /\ gm'.pc \in {"range", "stream", "done"})
       => gm.cur \notin gm.expanded]_vars


\* C36: getMemberStream() pushes no group to its output, whether the group
\* has members or not.
EmitsNoGroup == \A g \in Groups : gm.emitted[g] = 0


\* C37: once the consumer has destroyed a stream and its 'close' event has
\* set canceled, the producer asks the server for no page of the search:
\* neither the first one nor, after a page, the next.
NoPageAfterCancel ==
  [][\A o \in Ops :
       (kind[o] = "stream" /\ canceled[o]) => ~(pc[o] # "active" /\ pc'[o] = "active")]_vars


\* The connections the traversal holds or has asked for: one for each open
\* sub-stream, and one while get() of the root or fullRange() of a group is
\* under way.
TraversalConnections ==
  gm.open + (IF gm.pc \in {"root", "range"} THEN 1 ELSE 0)

\* C38: the traversal never holds or asks for more than one connection at a
\* time, so that a pool of one connection serves each of its lookups and
\* sub-streams in turn; and with every lookup answered and the output read
\* it comes to its end.
OneConnectionSuffices ==
  /\ [](TraversalConnections <= 1)
  /\ (gm.pc = "root") ~> (gm.pc \in {"done", "failed"})

\* The traversal has ended its output after the sub-streams of a group and
\* of a subgroup, each followed by the lookup or the sub-stream after it.
WalkedSubgroupOnOneConnection ==
  /\ gm.pc = "done"
  /\ gm.ended
  /\ Cardinality(gm.expanded) >= 2
  /\ \E u \in Users : gm.emitted[u] >= 1
  /\ gm.open = 0


\* A step of the traversal that opens a sub-stream, for the first search of a
\* group or for the one after a sub-stream that ended.
OpensSubStream ==
  /\ gm'.pc = "stream"
  /\ gm.pc # "stream" \/ Len(gm'.lookups) < Len(gm.lookups)

\* C39: once the consumer has destroyed the output before its end, the
\* traversal opens no further sub-stream, and the connection of the
\* sub-stream that is open is released in the end.
DestroyStopsTraversal ==
  /\ [][gm.destroyed => ~OpensSubStream]_vars
  /\ gm.destroyed ~> (gm.open = 0)


\* C40: between the turns of the event loop a key has filters waiting in
\* loadPairs if and only if loadPromises holds a promise for it, and that
\* promise is one whose timer has not fired; the timer removes both in one
\* step, with none of the searches it sends answered yet, and each filter
\* that waited is in exactly one of these searches, which hold no other.
CoalescerInStep ==
  /\ [](\A k \in Keys :
          /\ loadPairs[k] # <<>> <=> loadPromises[k] # None
          /\ loadPromises[k] # None =>
               /\ promises[loadPromises[k]].key = k
               /\ promises[loadPromises[k]].timer
               /\ promises[loadPromises[k]].searches = <<>>)
  /\ [][\A p \in 1 .. Len(promises) :
          (promises[p].timer /\ ~promises'[p].timer) =>
            LET k == promises[p].key
                ss == promises'[p].searches
                Sent == {ij \in (1 .. Len(ss)) \X (1 .. batchLimit) :
                           ij[2] <= Len(ss[ij[1]].filters)}
            IN /\ loadPairs'[k] = <<>>
               /\ loadPromises'[k] = None
               /\ \A i \in 1 .. Len(ss) : ss[i].state = "sent"
               /\ \A f \in Range(loadPairs[k]) :
                    Cardinality({ij \in Sent : ss[ij[1]].filters[ij[2]] = f}) = 1
               /\ \A ij \in Sent : ss[ij[1]].filters[ij[2]] \in Range(loadPairs[k])]_vars

\* The timer of a burst of more filters than two batches hold has fired: the
\* key is cleared and three searches are on their way.
ThreeBatchesDispatched ==
  /\ Len(promises) = 1
  /\ ~promises[1].timer
  /\ Len(promises[1].searches) = 3
  /\ \A i \in 1 .. 3 : promises[1].searches[i].state = "sent"
  /\ loadPairs[promises[1].key] = <<>>
  /\ loadPromises[promises[1].key] = None

=============================================================================
